---- MODULE Spec2Model ----
(***************************************************************************)
(* Fog of War: the authoritative game state of the main process, its       *)
(* broadcast to the Electron windows and to the SSE viewers, and the fog   *)
(* mask every display surface composites from the operation log.           *)
(*                                                                         *)
(* Specifications:                                                         *)
(*   SpecFog   the FogLayer alone: applyOps / applyOneOp on bounded logs   *)
(*   Spec      main process: gameState.ts + the IPC handlers + broadcastSse*)
(*   SpecJoin  a browser viewer joining over /state and /events            *)
(*   SpecSurf  a display surface (MapCanvas) fed by the broadcasts         *)
(*   SpecIso   getState() on a heap of array objects (aliasing)            *)
(*   SpecLog   the fog log of gameState.ts under sequences of calls        *)
(*   SpecView  a display surface alone, fed arbitrary state snapshots      *)
(*   SpecStroke  the DM's paint gesture: paintAt, the stroke buffer, flush *)
(*   SpecPush  the main process and the registry of its SSE clients        *)
(*   SpecPeer  the main process and the player window                      *)
(*   SpecLaser  the laser-pointer channel next to the snapshot stream      *)
(*   SpecImage  images committed and loaded while an SSE client comes, dies *)
(*   SpecEdit  the DM's gestures, their flush to the store and its echo    *)
(***************************************************************************)
EXTENDS Integers, Sequences, FiniteSets, TLC

\* ------------------------------------------------------------------ bounds
\* Longest operation log / batch drawn as an input.
MaxLen == 3
\* Most mutations of the authoritative state in one run.
MaxMut == 2
\* Addresses of the object heap in SpecIso.
MaxHeap == 6
\* Most calls on the fog log in one run of SpecLog.
MaxCalls == 3
\* Most pointer-move samples in one paint gesture, most gestures in one run.
MaxMoves == 1
MaxStrokes == 1
\* Width and height of the map image (the fog raster), in pixels.
MapW == 4
MapH == 1
\* 8-bit alpha channel of the fog RenderTexture.
AlphaMax == 255

VARIABLES
  \* --- SpecFog: one FogLayer driven by full replay, one by applyOneOp
  ops,        \* the operation log under test
  rebuilt,    \* FogLayer after applyOps(ops)
  stepped,    \* FogLayer after applyOneOp on ops[1..n]
  n,          \* how many ops the stepped layer has applied
  trail,      \* history: trail[k] is the stepped layer before ops[k] was applied
  suffixed,   \* FogLayer after applyOps(ops[i+1..]) for a reset index i
  cut,        \* the reset index i used for `suffixed' (0 = none yet)
  fogPc,      \* "new" | "rebuilt"
  redone,     \* a FogLayer rebuilt over whatever its raster held
  over,       \* history: the layer the last such rebuild was made over
  redoPc,     \* "new" | "once" | "twice"
  \* --- main process: gameState.ts and the module state of main/index.ts
  state,                \* const state: GameState
  sseLastMapKey,        \* identity of the map of the last SSE broadcast
  sseMapDataUrlCache,   \* payload handed to SSE clients when the map changed
  sseLastBattleLogLen,
  sseLastBattleId,
  sseClients,           \* registered /events responses, in array order
  destroyed,            \* registered responses whose socket is destroyed
  sseOut,               \* per client: the last frame written to it
  sseFrame,             \* the frame (payload) built by the last broadcastSse
  sseWire,              \* frames written to the browser viewer, not yet read by it
  ipcWire,              \* STATE_UPDATE messages to the player window, not yet handled
  dmMsg,                \* last STATE_UPDATE sent to the DM window
  playerWindow,         \* "none" | "created" | "shown"
  playerMsg,            \* last STATE_UPDATE sent to the player window
  pullResp,             \* body of the /state response being written, if any
  loadPc,               \* LOAD_SCENE: "idle" | "dialog" | "reading" | "confirm"
  loadFile,             \* the save file LOAD_SCENE is working on
  loadResult,           \* what the last LOAD_SCENE returned to its caller
  partyPc,              \* LOAD_PARTY: "idle" | "pending"
  savePc,               \* SAVE_SCENE: "idle" | "dialog" | "reading" | "writing"
  saveSnap,             \* the snapshot SAVE_SCENE holds across readFile
  nMut,                 \* history: mutations applied to the state
  nBcast,               \* history: broadcastState calls
  imageData,            \* history: the payload the current image came with
  \* --- a browser viewer (App.tsx without window.api) and its gameStore
  vFetch,               \* fetch('/state'): "none" | "sent" | "responded" | "applied"
  vBody,                \* the /state response on its way to the viewer
  vEs,                  \* EventSource('/events'): "none" | "connecting" | "open"
  vStore,               \* the viewer's gameStore (the GameState part)
  vGot,                 \* history: push frames the viewer has applied
  vSeq,                 \* history: broadcast number of the state the viewer holds
  subAt,                \* history: the authoritative state when /events registered
  \* --- the player window's renderer: its gameStore and its MapCanvas
  surfStore,            \* the window's gameStore (the GameState part)
  pixi,                 \* MapCanvas: "unmounted" | "initing" | "ready"
  fogLayer,             \* fogLayerRef.current (NoLayer while there is none)
  prevFogOpsLen,        \* prevFogOpsLenRef.current
  surfSeen,             \* history: the last update processed, and store and raster before it
  \* --- gameState.ts at the level of object references
  heap,                 \* heap[a]: the content of the array at address a
  gsRef,                \* the `state' object: fogOps and tokens hold addresses
  held,                 \* a snapshot a caller of getState still holds
  heldValue,            \* history: what the held snapshot is meant to read as
  \* --- SpecLog: gameState.ts called in sequence, and a raster rebuilt from it
  start,                \* history: the state before the first call
  calls,                \* history: the calls made, in order
  before,               \* history: the state before the last call
  shown,                \* a FogLayer rebuilt from the log since the last call
  \* --- SpecStroke: the DM's MapCanvas while painting fog
  activeTool,           \* "fog-reveal" | "fog-hide"
  brushRadius,          \* the store's brushRadius
  dmReady,              \* fogLayerRef.current?.isReady of the DM's canvas
  isPainting,           \* isPaintingRef.current
  lastPaintPos,         \* lastPaintPosRef.current
  strokeBuffer,         \* strokeBufferRef.current
  dmFogOps,             \* fogOps of the DM's own store (optimistic update)
  sent,                 \* batchFogOps messages sent to the main process
  drawn,                \* history: operations applied to the DM's raster
  samples,              \* history: pointer samples since the last pointer-down
  strokes,              \* history: pointer-downs so far
  dmPrevLen,            \* the DM canvas's prevFogOpsLenRef
  replayed,             \* history: operations the DM's fogOps effect applied one by one
  rebuilds,             \* history: full rebuilds the DM's fogOps effect made
  handled,              \* batches of `sent' the main process has handled
  echoes,               \* snapshots on their way to the DM window
  \* --- the laser-pointer channel of main/index.ts
  laserOut,             \* per client: the last `laser-pointer' SSE event written
  playerLaser           \* last LASER_POINTER message sent to the player window

fogVars == <<ops, rebuilt, stepped, n, trail, suffixed, cut, fogPc, redone, over, redoPc>>
sseVars == <<sseLastMapKey, sseMapDataUrlCache, sseLastBattleLogLen, sseLastBattleId>>
outVars == <<sseClients, sseOut, sseFrame, sseWire, ipcWire, dmMsg, playerMsg>>
loadVars == <<loadPc, loadFile, loadResult, partyPc>>
saveVars == <<savePc, saveSnap>>
joinVars == <<vFetch, vBody, vEs, vStore, vGot, vSeq, subAt>>
surfVars == <<surfStore, pixi, fogLayer, prevFogOpsLen, surfSeen>>
isoVars == <<heap, gsRef, held, heldValue>>
logVars == <<start, calls, before, shown>>
laserVars == <<laserOut, playerLaser>>
editVars == <<dmPrevLen, replayed, rebuilds, handled, echoes>>
strokeVars == <<activeTool, brushRadius, dmReady, isPainting, lastPaintPos,
                strokeBuffer, dmFogOps, sent, drawn, samples, strokes, editVars>>
beyondMain == <<fogVars, joinVars, surfVars, isoVars, logVars, strokeVars, laserVars>>
beyondJoin == <<fogVars, surfVars, isoVars, logVars, strokeVars, laserVars>>
beyondSurf == <<fogVars, joinVars, isoVars, logVars, strokeVars, laserVars>>
beyondIso == <<fogVars, joinVars, surfVars, logVars, strokeVars, laserVars>>
mainRest == <<sseVars, outVars, destroyed, playerWindow, pullResp, loadVars,
              saveVars, nMut, nBcast, imageData>>
mainVars == <<state, mainRest>>

beyondStroke == <<mainVars, fogVars, joinVars, surfVars, isoVars, logVars, laserVars>>
beyondLaser == <<fogVars, joinVars, surfVars, isoVars, logVars, strokeVars>>
beyondLog == <<mainRest, fogVars, joinVars, surfVars, isoVars, strokeVars, laserVars>>
beyondFog == <<mainVars, joinVars, surfVars, isoVars, logVars, strokeVars, laserVars>>

\* ---------------------------------------------------------------- FogOp
\* types/index.ts FogOp, as one record shape: circles use x, y, radius,
\* polygons use points (flat x0,y0,x1,y1,...), reset uses neither.
Circle(t, x, y, r) == [type |-> t, x |-> x, y |-> y, radius |-> r, points |-> <<>>]
Polygon(pts) == [type |-> "reveal-polygon", x |-> 0, y |-> 0, radius |-> 0, points |-> pts]
ResetOp == [type |-> "reset", x |-> 0, y |-> 0, radius |-> 0, points |-> <<>>]

\* The operations drawn as inputs: a reveal and a hide with the same centre
\* and radius, a second reveal overlapping the first, a rectangle, a polygon
\* of two vertices (malformed), and a reset.
RevealA == Circle("reveal-circle", 1, 0, 2)
HideA == Circle("hide-circle", 1, 0, 2)
RevealB == Circle("reveal-circle", 3, 1, 1)
PolyOk == Polygon(<<2, 0, 4, 0, 4, 1, 2, 1>>)
PolyBad == Polygon(<<0, 0, 2, 1>>)
FogOps == {RevealA, HideA, RevealB, PolyOk, PolyBad, ResetOp}

SeqsUpTo(S, k) == UNION {[1..m -> S] : m \in 0..k}

\* ------------------------------------------------------------- FogLayer
Pixels == (0..(MapW - 1)) \X (0..(MapH - 1))

\* A FogLayer: ready iff fogTexture is non-null; mask[p] is the fog alpha of
\* pixel p (AlphaMax = opaque fog, 0 = fully revealed).
Opaque == [p \in Pixels |-> AlphaMax]
NoLayer == [ready |-> FALSE, mask |-> Opaque]

\* FogLayer.init: cleanup, create the texture, fillBlack.
FogInit == [ready |-> TRUE, mask |-> Opaque]

\* FogLayer.cleanup: the texture is destroyed.
FogCleanup(layer) == NoLayer

FillBlackSkipped(layer) == layer

\* FogLayer.fillBlack: no-op without a texture, else every pixel opaque.
FillBlack(layer) ==
  IF ~layer.ready THEN layer ELSE [layer EXCEPT !.mask = Opaque]

Isqrt(v) == CHOOSE k \in 0..v : k * k <= v /\ (k + 1) * (k + 1) > v

\* getFeatherTexture sampled at the centre of pixel p for a sprite anchored
\* at its centre on (op.x, op.y): alpha AlphaMax up to 65% of the radius,
\* fading linearly to 0 at the radius, 0 outside. Distances are kept in
\* half-pixels (d2 = 2 * distance), the fade in eighths of a half-pixel.
Feather(op, p) ==
  LET dx == 2 * p[1] + 1 - 2 * op.x
      dy == 2 * p[2] + 1 - 2 * op.y
      d2sq == dx * dx + dy * dy
      r2 == 2 * op.radius
  IN  IF d2sq >= r2 * r2 THEN 0
      ELSE IF 10000 * d2sq <= 65 * 65 * r2 * r2 THEN AlphaMax
      ELSE LET ds == Isqrt(64 * d2sq)
               a == (AlphaMax * (8 * r2 - ds) * 100) \div (35 * 8 * r2)
           IN  IF a > AlphaMax THEN AlphaMax ELSE a

\* Graphics.poly(points).fill: pixel p is covered when its centre is inside
\* the vertex loop (crossing number of the ray to the right of the centre).
Inside(pts, p) ==
  LET m == Len(pts) \div 2
      cx == 2 * p[1] + 1
      cy == 2 * p[2] + 1
      X(i) == 2 * pts[2 * i - 1]
      Y(i) == 2 * pts[2 * i]
      Nxt(i) == IF i = m THEN 1 ELSE i + 1
      Crosses(i) ==
        LET x1 == X(i)
            y1 == Y(i)
            x2 == X(Nxt(i))
            y2 == Y(Nxt(i))
        IN  /\ (y1 > cy) # (y2 > cy)
            /\ IF y2 > y1
                 THEN (cx - x1) * (y2 - y1) < (cy - y1) * (x2 - x1)
                 ELSE (cx - x1) * (y2 - y1) > (cy - y1) * (x2 - x1)
  IN  Cardinality({i \in 1..m : Crosses(i)}) % 2 = 1

\* 'erase' blend: destination alpha times (1 - source alpha), 8-bit rounded.
Erase(dst, src) == (dst * (AlphaMax - src) + (AlphaMax \div 2)) \div AlphaMax

\* 'normal' blend of a black sprite: source over destination.
Over(dst, src) == src + Erase(dst, src)

DrawOpShortPolygonClears(layer, op) ==
  IF ~layer.ready THEN layer
  ELSE IF op.type = "hide-circle"
    THEN [layer EXCEPT !.mask = [p \in Pixels |-> Over(layer.mask[p], Feather(op, p))]]
  ELSE IF op.type = "reveal-circle"
    THEN [layer EXCEPT !.mask = [p \in Pixels |-> Erase(layer.mask[p], Feather(op, p))]]
  ELSE IF op.type = "reveal-polygon"
    THEN [layer EXCEPT !.mask =
            [p \in Pixels |-> IF Len(op.points) < 6 \/ Inside(op.points, p)
                                THEN 0 ELSE layer.mask[p]]]
  ELSE layer

\* FogLayer.drawOp.
DrawOp(layer, op) ==
  IF ~layer.ready THEN layer
  ELSE IF op.type = "hide-circle"
    THEN [layer EXCEPT !.mask = [p \in Pixels |-> Over(layer.mask[p], Feather(op, p))]]
  ELSE IF op.type = "reveal-circle"
    THEN [layer EXCEPT !.mask = [p \in Pixels |-> Erase(layer.mask[p], Feather(op, p))]]
  ELSE IF op.type = "reveal-polygon"
    THEN IF Len(op.points) < 6 THEN layer
         ELSE [layer EXCEPT !.mask =
                 [p \in Pixels |-> IF Inside(op.points, p) THEN 0 ELSE layer.mask[p]]]
  ELSE layer

RECURSIVE DrawAll(_, _, _)
DrawAll(layer, log, i) ==
  IF i > Len(log) THEN layer ELSE DrawAll(DrawOp(layer, log[i]), log, i + 1)

FindReplayStartFromZero(log) == 1

\* applyOps, lines 46-50: the index after the last reset (1-based here), or
\* the first index without one.
FindReplayStart(log) ==
  IF \E i \in 1..Len(log) : log[i].type = "reset"
    THEN 1 + (CHOOSE i \in 1..Len(log) :
                /\ log[i].type = "reset"
                /\ \A j \in (i + 1)..Len(log) : log[j].type # "reset")
    ELSE 1

ApplyOpsOnTop(layer, log) ==
  IF ~layer.ready THEN layer
  ELSE DrawAll(layer, log, FindReplayStart(log))

\* FogLayer.applyOps.
ApplyOps(layer, log) ==
  IF ~layer.ready THEN layer
  ELSE DrawAll(FillBlack(layer), log, FindReplayStart(log))

ApplyOneOpNoReset(layer, op) == DrawOp(layer, op)

\* FogLayer.applyOneOp.
ApplyOneOp(layer, op) ==
  IF ~layer.ready THEN layer
  ELSE IF op.type = "reset" THEN FillBlack(layer)
  ELSE DrawOp(layer, op)

\* ------------------------------------------------------------ gameState.ts
\* null and undefined (a missing property) of the TypeScript types.
Null == [null |-> TRUE]
Missing == [undefined |-> TRUE]
Undefined == "undefined"

\* Nothing there: no message sent yet, no snapshot held.
NoFrame == [none |-> TRUE]

\* `v ?? null'
OrNull(v) == IF v = Missing THEN Null ELSE v

\* MapInfo: the image payload (dataUrl) and the optional filePath; every
\* image has the natural dimensions MapW x MapH.
DataUrls == {"D1", "D2"}
FilePaths == {"F1"}
MapInfo(d, f) == [dataUrl |-> d, filePath |-> f]
MapInfos == {MapInfo(d, f) : d \in DataUrls, f \in FilePaths \cup {Undefined}}

\* Tokens: an id and a position.
TokenIds == {"t1", "t2"}
Token(id, x) == [id |-> id, x |-> x]
Tokens == {Token(id, x) : id \in TokenIds, x \in {0, 1}}
NewTokens == {Token(id, 0) : id \in TokenIds}
MovedTokens == {Token(id, 1) : id \in TokenIds}

\* Battle: its id and its event log; the other fields ride along unchanged.
Battle(id, log) == [id |-> id, log |-> log]
Battles == {Battle("b1", <<>>), Battle("b1", <<"e1">>), Battle("b2", <<"e2">>)}
MonsterReveals == {[imgUrl |-> "u1", name |-> "m1"]}
PlayerViewports == {[x |-> 1, y |-> 1, scale |-> 2]}

\* const state: GameState = {...}
InitState ==
  [map |-> Null, fogOps |-> <<>>, tokens |-> <<>>, tokenRadius |-> 20,
   tokenLabelSize |-> 14, tokenLabelVisible |-> TRUE, playerViewport |-> Null,
   battle |-> Null, monsterReveal |-> Null]

\* getState: structuredClone gives a value equal to the state (that the copy
\* shares no object with the state is the subject of SpecIso).
GetState(st) == st

SetMapKeepsLog(st, map) == [st EXCEPT !.map = map]

\* setMap
SetMap(st, map) == [st EXCEPT !.map = map, !.fogOps = <<>>]

AddFogOpKeepsReset(st, op) ==
  IF op.type = "reset" THEN [st EXCEPT !.fogOps = <<op>>]
  ELSE [st EXCEPT !.fogOps = Append(@, op)]

AddFogOpStacksResets(st, op) ==
  IF op.type # "reset" /\ Len(st.fogOps) > 0 /\ st.fogOps[Len(st.fogOps)].type = "reset"
    THEN [st EXCEPT !.fogOps = <<op>>]
    ELSE [st EXCEPT !.fogOps = Append(@, op)]

AddFogOpAlwaysPushes(st, op) == [st EXCEPT !.fogOps = Append(@, op)]

AddFogOpResetSparesOne(st, op) ==
  IF op.type = "reset" /\ Len(st.fogOps) # 1 THEN [st EXCEPT !.fogOps = <<op>>]
  ELSE IF Len(st.fogOps) > 0 /\ st.fogOps[Len(st.fogOps)].type = "reset"
    THEN [st EXCEPT !.fogOps = <<op>>]
    ELSE [st EXCEPT !.fogOps = Append(@, op)]

\* addFogOp
AddFogOp(st, op) ==
  IF op.type = "reset" THEN [st EXCEPT !.fogOps = <<op>>]
  ELSE IF Len(st.fogOps) > 0 /\ st.fogOps[Len(st.fogOps)].type = "reset"
    THEN [st EXCEPT !.fogOps = <<op>>]
    ELSE [st EXCEPT !.fogOps = Append(@, op)]

AddFogOpsConcatenates(st, batch) == [st EXCEPT !.fogOps = @ \o batch]

\* addFogOps: for (const op of ops) addFogOp(op)
RECURSIVE AddFogOps(_, _)
AddFogOps(st, batch) ==
  IF batch = <<>> THEN st ELSE AddFogOps(AddFogOp(st, Head(batch)), Tail(batch))

ResetFogDropsTokens(st) == [st EXCEPT !.fogOps = <<>>, !.tokens = <<>>]

\* resetFog
ResetFog(st) == [st EXCEPT !.fogOps = <<>>]

\* addToken
AddToken(st, token) == [st EXCEPT !.tokens = Append(@, token)]

\* updateToken: the first token with the id is replaced, if any.
UpdateToken(st, updated) ==
  IF \E i \in 1..Len(st.tokens) : st.tokens[i].id = updated.id
    THEN LET idx == CHOOSE i \in 1..Len(st.tokens) :
                      /\ st.tokens[i].id = updated.id
                      /\ \A j \in 1..(i - 1) : st.tokens[j].id # updated.id
         IN  [st EXCEPT !.tokens[idx] = updated]
    ELSE st

RECURSIVE Without(_, _)
Without(toks, id) ==
  IF toks = <<>> THEN <<>>
  ELSE IF Head(toks).id = id THEN Without(Tail(toks), id)
  ELSE <<Head(toks)>> \o Without(Tail(toks), id)

\* removeToken
RemoveToken(st, id) == [st EXCEPT !.tokens = Without(@, id)]

\* setTokenRadius, setTokenLabelSize, setTokenLabelVisible, setPlayerViewport,
\* setBattle, setMonsterReveal
SetTokenRadius(st, r) == [st EXCEPT !.tokenRadius = r]
SetTokenLabelSize(st, size) == [st EXCEPT !.tokenLabelSize = size]
SetTokenLabelVisible(st, visible) == [st EXCEPT !.tokenLabelVisible = visible]
SetPlayerViewport(st, vp) == [st EXCEPT !.playerViewport = vp]
SetBattle(st, battle) == [st EXCEPT !.battle = battle]
SetMonsterReveal(st, reveal) == [st EXCEPT !.monsterReveal = reveal]

\* importParty
ImportParty(st, toks) == [st EXCEPT !.tokens = @ \o toks]

\* loadSave: eight assignments; monsterReveal is not among them.
LoadSave(st, save) ==
  [st EXCEPT !.map = save.map,
             !.fogOps = save.fogOps,
             !.tokens = save.tokens,
             !.tokenRadius = save.tokenRadius,
             !.tokenLabelSize = save.tokenLabelSize,
             !.tokenLabelVisible = save.tokenLabelVisible,
             !.playerViewport = OrNull(save.playerViewport),
             !.battle = OrNull(save.battle)]

\* ------------------------------------------ gameState.ts, by reference
\* The same functions with the arrays as objects: heap[a] is the content of
\* the array at address a, and a state record holds addresses in fogOps and
\* tokens.  m = [heap, gs, held] is the heap with the module's `state' object
\* and the snapshot some caller still holds.  push and index assignment write
\* the array in place; an assignment to state.fogOps or state.tokens installs
\* a new array.  An array no object refers to any more is reclaimed.
Deref(h, g) == [g EXCEPT !.fogOps = h[g.fogOps], !.tokens = h[g.tokens]]

Addrs == 1..MaxHeap
InitHeap == [a \in Addrs |-> <<>>]
InitRef == [InitState EXCEPT !.fogOps = 1, !.tokens = 2]

Roots(g, h) ==
  {g.fogOps, g.tokens} \cup (IF h = NoFrame THEN {} ELSE {h.fogOps, h.tokens})

\* The address a new array gets: none that a live object refers to.
Fresh(used) == CHOOSE a \in Addrs \ used : \A b \in Addrs \ used : a <= b

Sweep(h, live) == [a \in Addrs |-> IF a \in live THEN h[a] ELSE <<>>]

NewFogOps(m, arr) ==
  LET a == Fresh(Roots(m.gs, m.held))
  IN  [m EXCEPT !.heap[a] = arr, !.gs.fogOps = a]

NewTokenArray(m, arr) ==
  LET a == Fresh(Roots(m.gs, m.held))
  IN  [m EXCEPT !.heap[a] = arr, !.gs.tokens = a]

\* setMap
RefSetMap(m, map) == NewFogOps([m EXCEPT !.gs.map = map], <<>>)

\* addFogOp
RefAddFogOp(m, op) ==
  LET arr == m.heap[m.gs.fogOps]
  IN  IF op.type = "reset" THEN NewFogOps(m, <<op>>)
      ELSE IF arr # <<>> /\ arr[Len(arr)].type = "reset" THEN NewFogOps(m, <<op>>)
      ELSE [m EXCEPT !.heap[m.gs.fogOps] = Append(@, op)]

\* addFogOps
RECURSIVE RefAddFogOps(_, _)
RefAddFogOps(m, batch) ==
  IF batch = <<>> THEN m
  ELSE RefAddFogOps(RefAddFogOp(m, Head(batch)), Tail(batch))

\* resetFog
RefResetFog(m) == NewFogOps(m, <<>>)

\* addToken
RefAddToken(m, token) == [m EXCEPT !.heap[m.gs.tokens] = Append(@, token)]

\* updateToken
RefUpdateToken(m, updated) ==
  LET arr == m.heap[m.gs.tokens]
  IN  IF \E i \in 1..Len(arr) : arr[i].id = updated.id
        THEN LET idx == CHOOSE i \in 1..Len(arr) :
                          /\ arr[i].id = updated.id
                          /\ \A j \in 1..(i - 1) : arr[j].id # updated.id
             IN  [m EXCEPT !.heap[m.gs.tokens][idx] = updated]
        ELSE m

\* removeToken
RefRemoveToken(m, id) == NewTokenArray(m, Without(m.heap[m.gs.tokens], id))

\* setTokenRadius
RefSetTokenRadius(m, r) == [m EXCEPT !.gs.tokenRadius = r]

\* importParty
RefImportParty(m, toks) == NewTokenArray(m, m.heap[m.gs.tokens] \o toks)

\* loadSave of a save object fresh from JSON.parse: its two arrays become the
\* state's arrays.
RefLoadSave(m, save) ==
  LET used == Roots(m.gs, m.held)
      a1 == Fresh(used)
      a2 == Fresh(used \cup {a1})
  IN  [m EXCEPT !.heap[a1] = save.fogOps,
                !.heap[a2] = save.tokens,
                !.gs.map = save.map,
                !.gs.fogOps = a1,
                !.gs.tokens = a2,
                !.gs.tokenRadius = save.tokenRadius,
                !.gs.tokenLabelSize = save.tokenLabelSize,
                !.gs.tokenLabelVisible = save.tokenLabelVisible,
                !.gs.playerViewport = OrNull(save.playerViewport),
                !.gs.battle = OrNull(save.battle)]

RefGetStateShared(m) == [m EXCEPT !.held = m.gs]

\* getState: structuredClone(state) copies both arrays into new ones; the
\* caller holds the result.
RefGetState(m) ==
  LET used == Roots(m.gs, m.held)
      a1 == Fresh(used)
      a2 == Fresh(used \cup {a1})
  IN  [m EXCEPT !.heap[a1] = m.heap[m.gs.fogOps],
                !.heap[a2] = m.heap[m.gs.tokens],
                !.held = [m.gs EXCEPT !.fogOps = a1, !.tokens = a2]]

\* ------------------------------------------------------- gameStore.ts
\* The GameState fields of the renderer's zustand store.
InitStore ==
  [map |-> Null, fogOps |-> <<>>, tokens |-> <<>>, tokenRadius |-> 20,
   tokenLabelSize |-> 14, tokenLabelVisible |-> TRUE, playerViewport |-> Null]

ApplyStateTakesIncomingMap(s, incoming) ==
  [map |-> incoming.map,
   fogOps |-> incoming.fogOps,
   tokens |-> incoming.tokens,
   tokenRadius |-> incoming.tokenRadius,
   tokenLabelSize |-> incoming.tokenLabelSize,
   tokenLabelVisible |-> incoming.tokenLabelVisible,
   playerViewport |-> OrNull(incoming.playerViewport)]

\* applyState: no map clears the map; a map with a payload replaces the held
\* one unless the payload is the same; a map without payload keeps the held one.
ApplyState(s, incoming) ==
  [map |-> IF incoming.map = Null THEN Null
           ELSE IF incoming.map.dataUrl # ""
             THEN IF s.map # Null /\ s.map.dataUrl = incoming.map.dataUrl
                    THEN s.map
                    ELSE incoming.map
           ELSE s.map,
   fogOps |-> incoming.fogOps,
   tokens |-> incoming.tokens,
   tokenRadius |-> incoming.tokenRadius,
   tokenLabelSize |-> incoming.tokenLabelSize,
   tokenLabelVisible |-> incoming.tokenLabelVisible,
   playerViewport |-> OrNull(incoming.playerViewport)]

\* ---------------------------------------------------------- MapCanvas.tsx
\* The map effect for a non-null map, up to its first await: fogLayer.init,
\* applyOps of the store's log, prevFogOpsLenRef = its length.
MapEffect(layer, prevLen, fogOps) ==
  [layer |-> ApplyOps(FogInit, fogOps), prevLen |-> Len(fogOps)]

RECURSIVE ApplyFrom(_, _, _)
ApplyFrom(layer, fogOps, i) ==
  IF i > Len(fogOps) THEN layer
  ELSE ApplyFrom(ApplyOneOp(layer, fogOps[i]), fogOps, i + 1)

FogEffectAlwaysRebuilds(layer, prevLen, fogOps) ==
  IF ~layer.ready THEN [layer |-> layer, prevLen |-> prevLen]
  ELSE [layer |-> IF Len(fogOps) = prevLen THEN layer ELSE ApplyOps(layer, fogOps),
        prevLen |-> Len(fogOps)]

\* The fogOps effect: nothing without a ready layer; equal length is taken
\* for an echo; an empty or shorter log is rebuilt; a longer log has only its
\* new tail applied.
FogEffect(layer, prevLen, fogOps) ==
  IF ~layer.ready THEN [layer |-> layer, prevLen |-> prevLen]
  ELSE LET newLen == Len(fogOps)
       IN  [layer |-> IF newLen = prevLen THEN layer
                      ELSE IF newLen = 0 \/ newLen < prevLen
                        THEN ApplyOps(layer, fogOps)
                      ELSE ApplyFrom(layer, fogOps, prevLen + 1),
            prevLen |-> newLen]

\* ------------------------------------------------------- main/index.ts
ClientIds == {"c1", "c2", "v"}

\* `state.map?.filePath ?? state.map?.dataUrl ?? ""'
MapKey(st) ==
  IF st.map = Null THEN ""
  ELSE IF st.map.filePath # Undefined THEN st.map.filePath
  ELSE st.map.dataUrl

\* `state.battle?.log.length ?? 0' and `state.battle?.id'
BattleLogLen(st) == IF st.battle = Null THEN 0 ELSE Len(st.battle.log)
BattleId(st) == IF st.battle = Null THEN Undefined ELSE st.battle.id

SseMapAlwaysStripped(st, lastKey, cache) ==
  IF st.map = Null THEN Null ELSE [st.map EXCEPT !.dataUrl = ""]

\* broadcastSse, lines 121-125: the map of the frame.
SseMap(st, lastKey, cache) ==
  IF st.map = Null THEN Null
  ELSE IF MapKey(st) # lastKey THEN [st.map EXCEPT !.dataUrl = cache]
  ELSE [st.map EXCEPT !.dataUrl = ""]

SseBattleComparesIdOnly(st, lastId, lastLen) ==
  IF st.battle # Null /\ BattleId(st) = lastId
    THEN [st.battle EXCEPT !.log = <<>>]
    ELSE st.battle

\* broadcastSse, lines 112-113 and 126-128: the battle of the frame.
SseBattle(st, lastId, lastLen) ==
  LET battleLogChanged == BattleId(st) # lastId \/ BattleLogLen(st) # lastLen
  IN  IF st.battle # Null /\ ~battleLogChanged
        THEN [st.battle EXCEPT !.log = <<>>]
        ELSE st.battle

\* broadcastSse, lines 117-129: sseState.
SseState(st, lastKey, cache, lastId, lastLen) ==
  [st EXCEPT !.map = SseMap(st, lastKey, cache),
             !.battle = SseBattle(st, lastId, lastLen)]

\* Alive keeping the clients whose socket is destroyed.
AliveKeepsAll(clients) == clients

\* sseClients.filter((c) => !c.destroyed)
Alive(clients) == SelectSeq(clients, LAMBDA c : c \notin destroyed)
InSeq(c, q) == \E i \in 1..Len(q) : q[i] = c

\* broadcastSse writing to the first live client only.
BroadcastSseFirstOnly(snap, cache) ==
  LET alive == Alive(sseClients)
      frame == SseState(snap, sseLastMapKey, cache, sseLastBattleId, sseLastBattleLogLen)
  IN  /\ sseClients' = alive
      /\ sseLastMapKey' = MapKey(snap)
      /\ sseLastBattleId' = (IF snap.battle = Null THEN "" ELSE snap.battle.id)
      /\ sseLastBattleLogLen' = BattleLogLen(snap)
      /\ sseFrame' = frame
      /\ sseWire' = sseWire
      /\ sseOut' = [c \in ClientIds |->
                      IF alive # <<>> /\ c = alive[1] THEN frame ELSE sseOut[c]]

\* broadcastSse(snap) with the cache as the handler left it.
BroadcastSse(snap, cache) ==
  LET alive == Alive(sseClients)
      frame == SseState(snap, sseLastMapKey, cache, sseLastBattleId, sseLastBattleLogLen)
  IN  /\ sseClients' = alive
      /\ sseLastMapKey' = MapKey(snap)
      /\ sseLastBattleId' = (IF snap.battle = Null THEN "" ELSE snap.battle.id)
      /\ sseLastBattleLogLen' = BattleLogLen(snap)
      /\ sseFrame' = frame
      /\ sseWire' = (IF InSeq("v", alive)
                       THEN Append(sseWire, [frame |-> frame, seq |-> nBcast + 1])
                       ELSE sseWire)
      /\ sseOut' = [c \in ClientIds |-> IF InSeq(c, alive) THEN frame ELSE sseOut[c]]

\* broadcastState sending the windows the frame built for the SSE clients.
BroadcastStateLite(st, cache) ==
  LET snap == GetState(st)
      frame == SseState(snap, sseLastMapKey, cache, sseLastBattleId, sseLastBattleLogLen)
  IN  /\ dmMsg' = frame
      /\ playerMsg' = (IF playerWindow # "none" THEN frame ELSE playerMsg)
      /\ ipcWire' = (IF playerWindow = "shown" THEN Append(ipcWire, frame) ELSE ipcWire)
      /\ BroadcastSse(snap, cache)
      /\ nBcast' = nBcast + 1

\* broadcastState() after the handler has left the store as st.
BroadcastState(st, cache) ==
  LET snap == GetState(st)
  IN  /\ dmMsg' = snap
      /\ playerMsg' = (IF playerWindow # "none" THEN snap ELSE playerMsg)
      /\ ipcWire' = (IF playerWindow = "shown" THEN Append(ipcWire, snap) ELSE ipcWire)
      /\ BroadcastSse(snap, cache)
      /\ nBcast' = nBcast + 1

\* How many mutations a behaviour explores: one more once a player window
\* exists, so that a window can be opened on a state with a history.
MutCap == IF playerWindow = "none" THEN MaxMut ELSE MaxMut + 1

\* A handler that mutates the store and broadcasts: the store becomes st, the
\* SSE payload cache becomes cache, the image payload on record becomes img.
Mutate(st, cache, img) ==
  /\ nMut < MutCap
  /\ state' = st
  /\ sseMapDataUrlCache' = cache
  /\ imageData' = img
  /\ nMut' = nMut + 1
  /\ BroadcastState(st, cache)

Update(st) == Mutate(st, sseMapDataUrlCache, imageData)

\* What the mutating handlers below leave alone.
Rest ==
  /\ pullResp' = NoFrame
  /\ UNCHANGED saveVars
  /\ UNCHANGED <<destroyed, playerWindow, loadVars, beyondMain>>

\* Inputs of the fog handlers in the main-process specifications.
StoreOps == {RevealA, HideA, ResetOp}
Batches == {<<RevealA, HideA>>, <<RevealA, ResetOp>>, <<ResetOp, RevealA>>}

\* `if (mapInfo.filePath)'
Truthy(str) == str # Undefined /\ str # ""

\* ipcMain.on(LOAD_MAP + ':commit')
CommitMap ==
  \E mapInfo \in MapInfos :
    /\ Mutate(SetMap(state, IF Truthy(mapInfo.filePath)
                              THEN [mapInfo EXCEPT !.dataUrl = ""]
                              ELSE mapInfo),
              mapInfo.dataUrl, mapInfo.dataUrl)
    /\ Rest

\* ipcMain.on(ADD_FOG_OP)
AddFogOpHandler == \E op \in StoreOps : Update(AddFogOp(state, op)) /\ Rest

\* ipcMain.on(BATCH_FOG_OPS)
BatchFogOps == \E batch \in Batches : Update(AddFogOps(state, batch)) /\ Rest

ResetFogSilent ==
  /\ nMut < MutCap
  /\ state' = ResetFog(state)
  /\ nMut' = nMut + 1
  /\ UNCHANGED <<sseVars, outVars, nBcast, imageData>>
  /\ Rest

\* ipcMain.on(RESET_FOG)
ResetFogHandler == Update(ResetFog(state)) /\ Rest

UsedIds == {state.tokens[i].id : i \in 1..Len(state.tokens)}

\* ipcMain.on(ADD_TOKEN): the renderer gives the token a fresh random id.
AddTokenHandler ==
  \E token \in NewTokens :
    /\ token.id \notin UsedIds
    /\ Update(AddToken(state, token))
    /\ Rest

\* ipcMain.on(UPDATE_TOKEN)
UpdateTokenHandler == \E token \in MovedTokens : Update(UpdateToken(state, token)) /\ Rest

\* ipcMain.on(REMOVE_TOKEN)
RemoveTokenHandler == \E id \in TokenIds : Update(RemoveToken(state, id)) /\ Rest

\* ipcMain.on(SET_TOKEN_RADIUS)
SetTokenRadiusHandler == \E r \in {20, 30} : Update(SetTokenRadius(state, r)) /\ Rest

\* ipcMain.on(SET_TOKEN_LABEL_SIZE)
SetTokenLabelSizeHandler ==
  \E size \in {14, 18} : Update(SetTokenLabelSize(state, size)) /\ Rest

\* ipcMain.on(SET_TOKEN_LABEL_VISIBLE)
SetTokenLabelVisibleHandler ==
  \E visible \in BOOLEAN : Update(SetTokenLabelVisible(state, visible)) /\ Rest

\* ipcMain.on(SET_PLAYER_VIEWPORT)
SetPlayerViewportHandler ==
  \E vp \in PlayerViewports \cup {Null} : Update(SetPlayerViewport(state, vp)) /\ Rest

\* ipcMain.on(SET_BATTLE)
SetBattleHandler ==
  \E battle \in Battles \cup {Null} : Update(SetBattle(state, battle)) /\ Rest

\* ipcMain.on(SET_MONSTER_REVEAL)
SetMonsterRevealHandler ==
  \E reveal \in MonsterReveals \cup {Null} : Update(SetMonsterReveal(state, reveal)) /\ Rest

\* app.getVersion() and minorVersion(v): the first two dot-separated parts.
AppVersion == <<1, 0, 0>>
MinorVersion(v) == SubSeq(v, 1, IF Len(v) < 2 THEN Len(v) ELSE 2)

\* Scene files the DM can pick: as SAVE_SCENE writes them (the payload is
\* always embedded, the filePath kept when the map came from disk), from this
\* or another version of the app, and a file that is not JSON.
SaveFile(ok, ver, map, log, toks, r, size, vis, vp, battle) ==
  [readable |-> ok, version |-> ver, map |-> map, fogOps |-> log, tokens |-> toks,
   tokenRadius |-> r, tokenLabelSize |-> size, tokenLabelVisible |-> vis,
   playerViewport |-> vp, battle |-> battle]
SaveOnDisk ==
  SaveFile(TRUE, <<1, 0, 4>>, MapInfo("D1", "F1"), <<HideA>>, <<Token("t1", 1)>>,
           30, 18, FALSE, [x |-> 1, y |-> 1, scale |-> 2], Battle("b2", <<"e2">>))
SaveEmbedded ==
  SaveFile(TRUE, <<1, 0, 0>>, MapInfo("D2", Undefined), <<RevealA, HideA>>, <<>>,
           20, 14, TRUE, Missing, Missing)
SaveOld ==
  SaveFile(TRUE, <<0, 9, 0>>, Null, <<>>, <<Token("t2", 0)>>,
           30, 14, TRUE, Null, Null)
SaveCorrupt ==
  SaveFile(FALSE, <<>>, Null, <<>>, <<>>, 20, 14, TRUE, Null, Null)
SaveFiles == {SaveOnDisk, SaveEmbedded, SaveOld, SaveCorrupt}

\* LOAD_SCENE, line 378: the open dialog is shown.
LoadSceneOpen ==
  /\ loadPc = "idle"
  /\ loadPc' = "dialog"
  /\ pullResp' = NoFrame
  /\ UNCHANGED saveVars
  /\ UNCHANGED <<state, sseVars, outVars, destroyed, playerWindow, loadFile,
                 loadResult, partyPc, nMut, nBcast, imageData, beyondMain>>

\* LOAD_SCENE, lines 378-383: the dialog resolves, with a file or without.
LoadSceneChoose ==
  /\ loadPc = "dialog"
  /\ \/ /\ loadPc' = "idle"
        /\ loadResult' = "cancelled"
        /\ UNCHANGED loadFile
     \/ \E f \in SaveFiles :
          /\ loadPc' = "reading"
          /\ loadFile' = f
          /\ UNCHANGED loadResult
  /\ pullResp' = NoFrame
  /\ UNCHANGED saveVars
  /\ UNCHANGED <<state, sseVars, outVars, destroyed, playerWindow, partyPc,
                 nMut, nBcast, imageData, beyondMain>>

\* LOAD_SCENE, lines 408-412: loadSave, the SSE cache, broadcastState.
LoadSceneApply(save) ==
  LET data == IF save.map = Null THEN "" ELSE save.map.dataUrl
  IN  /\ Mutate(LoadSave(state, save), data, data)
      /\ loadPc' = "idle"
      /\ loadResult' = "success"
      /\ loadFile' = Null
      /\ pullResp' = NoFrame
      /\ UNCHANGED saveVars
      /\ UNCHANGED <<partyPc, destroyed, playerWindow, beyondMain>>

\* LOAD_SCENE, lines 385-412: readFile and JSON.parse resolve; then either the
\* error return, the version warning, or the load itself.
LoadSceneRead ==
  /\ loadPc = "reading"
  /\ IF ~loadFile.readable
       THEN /\ loadPc' = "idle"
            /\ loadResult' = "error"
            /\ loadFile' = Null
            /\ pullResp' = NoFrame
            /\ UNCHANGED saveVars
            /\ UNCHANGED <<state, sseVars, outVars, partyPc, destroyed,
                           playerWindow, nMut, nBcast, imageData, beyondMain>>
       ELSE IF MinorVersion(loadFile.version) # MinorVersion(AppVersion)
         THEN /\ loadPc' = "confirm"
              /\ pullResp' = NoFrame
              /\ UNCHANGED saveVars
              /\ UNCHANGED <<state, sseVars, outVars, loadFile, loadResult, partyPc,
                             destroyed, playerWindow, nMut, nBcast, imageData,
                             beyondMain>>
         ELSE LoadSceneApply(loadFile)

\* A warning box whose Cancel loads the file all the same.
LoadSceneConfirmLoadsAnyway ==
  /\ loadPc = "confirm"
  /\ LET data == IF loadFile.map = Null THEN "" ELSE loadFile.map.dataUrl
     IN  Mutate(LoadSave(state, loadFile), data, data)
  /\ loadPc' = "idle"
  /\ loadResult' \in {"cancelled", "success"}
  /\ loadFile' = Null
  /\ pullResp' = NoFrame
  /\ UNCHANGED saveVars
  /\ UNCHANGED <<partyPc, destroyed, playerWindow, beyondMain>>

\* LOAD_SCENE, lines 397-412: the warning box resolves: Cancel (1) returns,
\* Open anyway (0) loads.
LoadSceneConfirm ==
  /\ loadPc = "confirm"
  /\ \/ /\ loadPc' = "idle"
        /\ loadResult' = "cancelled"
        /\ loadFile' = Null
        /\ pullResp' = NoFrame
        /\ UNCHANGED saveVars
        /\ UNCHANGED <<state, sseVars, outVars, partyPc, destroyed,
                       playerWindow, nMut, nBcast, imageData, beyondMain>>
     \/ LoadSceneApply(loadFile)

\* ipcMain.handle(SAVE_SCENE): the save dialog is shown.
SaveSceneOpen ==
  /\ savePc = "idle"
  /\ savePc' = "dialog"
  /\ pullResp' = NoFrame
  /\ UNCHANGED <<saveSnap, state, sseVars, outVars, destroyed, playerWindow, loadVars,
                 nMut, nBcast, imageData, beyondMain>>

\* The dialog returns: no path ends the handler; otherwise the snapshot is
\* taken, and a file-backed image without payload is read back from disk first.
SaveSceneChoose ==
  /\ savePc = "dialog"
  /\ \/ savePc' = "idle" /\ UNCHANGED saveSnap
     \/ LET snap == GetState(state) IN
          IF snap.map # Null /\ snap.map.dataUrl = "" /\ Truthy(snap.map.filePath)
            THEN savePc' = "reading" /\ saveSnap' = snap
            ELSE savePc' = "writing" /\ UNCHANGED saveSnap
  /\ pullResp' = NoFrame
  /\ UNCHANGED <<state, sseVars, outVars, destroyed, playerWindow, loadVars,
                 nMut, nBcast, imageData, beyondMain>>

\* readFile(state.map.filePath) settles: the save is built from the snapshot
\* and handed to writeFile, or the read fails and the handler rejects.
SaveSceneRead ==
  /\ savePc = "reading"
  /\ savePc' \in {"writing", "idle"}
  /\ saveSnap' = NoFrame
  /\ pullResp' = NoFrame
  /\ UNCHANGED <<state, sseVars, outVars, destroyed, playerWindow, loadVars,
                 nMut, nBcast, imageData, beyondMain>>

\* writeFile settles and the handler returns.
SaveSceneWrite ==
  /\ savePc = "writing"
  /\ savePc' = "idle"
  /\ pullResp' = NoFrame
  /\ UNCHANGED <<saveSnap, state, sseVars, outVars, destroyed, playerWindow, loadVars,
                 nMut, nBcast, imageData, beyondMain>>

\* LOAD_PARTY, line 452: the open dialog is shown.
LoadPartyOpen ==
  /\ partyPc = "idle"
  /\ partyPc' = "pending"
  /\ pullResp' = NoFrame
  /\ UNCHANGED saveVars
  /\ UNCHANGED <<state, sseVars, outVars, destroyed, playerWindow, loadPc,
                 loadFile, loadResult, nMut, nBcast, imageData, beyondMain>>

\* LOAD_PARTY, lines 457-487: a cancelled dialog, an unreadable file or a
\* refused version return without a change; otherwise the party's tokens get
\* fresh random ids, importParty, broadcastState.
LoadPartyFinish ==
  /\ partyPc = "pending"
  /\ partyPc' = "idle"
  /\ \/ UNCHANGED <<state, sseVars, outVars, nMut, nBcast, imageData>>
     \/ \E id \in TokenIds \ UsedIds :
          Update(ImportParty(state, <<Token(id, 0)>>))
  /\ pullResp' = NoFrame
  /\ UNCHANGED saveVars
  /\ UNCHANGED <<destroyed, playerWindow, loadPc, loadFile, loadResult,
                 beyondMain>>

\* GET /state: the body is JSON.stringify(gs.getState()).
StateBody == GetState(state)

HttpState ==
  /\ pullResp' = StateBody
  /\ UNCHANGED saveVars
  /\ UNCHANGED <<state, sseVars, outVars, destroyed, playerWindow, loadVars, nMut,
                 nBcast, imageData, beyondMain>>

\* GET /events: the response joins sseClients after the keep-alive comment.
Register(c) ==
  /\ ~InSeq(c, sseClients)
  /\ c \notin destroyed
  /\ sseClients' = Append(sseClients, c)
  /\ sseOut' = [sseOut EXCEPT ![c] = NoFrame]
  /\ pullResp' = NoFrame
  /\ UNCHANGED saveVars
  /\ UNCHANGED <<state, sseVars, sseFrame, sseWire, ipcWire, dmMsg, playerMsg, destroyed,
                 playerWindow, loadVars, nMut, nBcast, imageData>>

HttpEvents == Register("c1") /\ UNCHANGED beyondMain

\* The socket of a registered client dies: res.destroyed becomes true.
SocketDestroyed ==
  \E c \in ClientIds :
    /\ InSeq(c, sseClients)
    /\ c \notin destroyed
    /\ destroyed' = destroyed \cup {c}
    /\ pullResp' = NoFrame
    /\ UNCHANGED saveVars
    /\ UNCHANGED <<state, sseVars, outVars, playerWindow, loadVars, nMut,
                   nBcast, imageData, beyondMain>>

\* req.on('close'): the response leaves sseClients.
HttpClose ==
  \E c \in destroyed :
    /\ sseClients' = SelectSeq(sseClients, LAMBDA x : x # c)
    /\ destroyed' = destroyed \ {c}
    /\ pullResp' = NoFrame
    /\ UNCHANGED saveVars
    /\ UNCHANGED <<state, sseVars, sseOut, sseFrame, sseWire, ipcWire, dmMsg, playerMsg,
                   playerWindow, loadVars, nMut, nBcast, imageData, beyondMain>>

\* ipcMain.on(OPEN_PLAYER_WINDOW): createPlayerWindow, unless one exists.
OpenPlayerWindow ==
  /\ playerWindow = "none"
  /\ playerWindow' = "created"
  /\ pullResp' = NoFrame
  /\ UNCHANGED saveVars
  /\ UNCHANGED <<state, sseVars, outVars, destroyed, loadVars, nMut, nBcast,
                 imageData, beyondMain>>

\* playerWindow.on('ready-to-show'): the current state is sent to the window.
PlayerReadyToShow ==
  /\ playerWindow = "created"
  /\ playerWindow' = "shown"
  /\ playerMsg' = GetState(state)
  /\ ipcWire' = Append(ipcWire, GetState(state))
  /\ pullResp' = NoFrame
  /\ UNCHANGED saveVars
  /\ UNCHANGED <<state, sseVars, sseClients, sseOut, sseFrame, sseWire, dmMsg,
                 destroyed, loadVars, nMut, nBcast, imageData, beyondMain>>

\* playerWindow.on('closed'): the window and what was on its way to it are gone.
PlayerClosed ==
  /\ playerWindow # "none"
  /\ playerWindow' = "none"
  /\ ipcWire' = <<>>
  /\ pullResp' = NoFrame
  /\ UNCHANGED saveVars
  /\ UNCHANGED <<state, sseVars, sseClients, sseOut, sseFrame, sseWire, dmMsg,
                 playerMsg, destroyed, loadVars, nMut, nBcast, imageData, beyondMain>>

\* Pointer positions: a point of the map, or null when the pointer is off.
LaserPositions == {Null, [x |-> 1, y |-> 1]}

\* A laser handler that forgets what the SSE side remembers of the battle.
LaserPointerForgetsCursor ==
  \E pos \in LaserPositions :
    LET alive == Alive(sseClients)
    IN  /\ sseClients' = alive
        /\ laserOut' = [c \in ClientIds |->
                          IF InSeq(c, alive)
                            THEN [event |-> "laser-pointer", data |-> pos]
                            ELSE laserOut[c]]
        /\ playerLaser' = (IF playerWindow # "none" THEN pos ELSE playerLaser)
        /\ sseLastBattleId' = ""
        /\ sseLastBattleLogLen' = 0
        /\ pullResp' = NoFrame
        /\ UNCHANGED saveVars
        /\ UNCHANGED <<state, sseLastMapKey, sseMapDataUrlCache, sseOut, sseFrame,
                       sseWire, ipcWire, dmMsg, playerMsg, destroyed, playerWindow,
                       loadVars, nMut, nBcast, imageData, beyondLaser>>

\* ipcMain.on(LASER_POINTER): broadcastLaser(pos) prunes the registry, writes
\* a named SSE event to the live clients and sends LASER_POINTER to the
\* player window.
LaserPointer ==
  \E pos \in LaserPositions :
    LET alive == Alive(sseClients)
    IN  /\ sseClients' = alive
        /\ laserOut' = [c \in ClientIds |->
                          IF InSeq(c, alive)
                            THEN [event |-> "laser-pointer", data |-> pos]
                            ELSE laserOut[c]]
        /\ playerLaser' = (IF playerWindow # "none" THEN pos ELSE playerLaser)
        /\ pullResp' = NoFrame
        /\ UNCHANGED saveVars
        /\ UNCHANGED <<state, sseVars, sseOut, sseFrame, sseWire, ipcWire, dmMsg,
                       playerMsg, destroyed, playerWindow, loadVars, nMut, nBcast,
                       imageData, beyondLaser>>

\* ------------------------------------------------------------------- Spec
InitRest ==
  /\ sseLastMapKey = ""
  /\ sseMapDataUrlCache = ""
  /\ sseLastBattleLogLen = 0
  /\ sseLastBattleId = ""
  /\ sseClients = <<>>
  /\ destroyed = {}
  /\ sseOut = [c \in ClientIds |-> NoFrame]
  /\ sseFrame = NoFrame
  /\ sseWire = <<>>
  /\ ipcWire = <<>>
  /\ dmMsg = NoFrame
  /\ playerWindow = "none"
  /\ playerMsg = NoFrame
  /\ pullResp = NoFrame
  /\ loadPc = "idle"
  /\ loadFile = Null
  /\ loadResult = "none"
  /\ partyPc = "idle"
  /\ savePc = "idle"
  /\ saveSnap = NoFrame
  /\ nMut = 0
  /\ nBcast = 0
  /\ imageData = ""

InitMain ==
  /\ state = InitState
  /\ InitRest
  /\ laserOut = [c \in ClientIds |-> NoFrame]
  /\ playerLaser = NoFrame

\* The FogLayer variables of SpecFog, parked.
IdleFog ==
  /\ ops = <<>>
  /\ rebuilt = NoLayer
  /\ stepped = NoLayer
  /\ n = 0
  /\ trail = <<>>
  /\ suffixed = NoLayer
  /\ cut = 0
  /\ fogPc = "off"
  /\ redone = NoLayer
  /\ over = NoLayer
  /\ redoPc = "off"

\* The browser viewer before its page is opened.
IdleJoin ==
  /\ vFetch = "none"
  /\ vBody = [body |-> NoFrame, seq |-> 0]
  /\ vEs = "none"
  /\ vStore = InitStore
  /\ vGot = 0
  /\ vSeq = 0
  /\ subAt = NoFrame

\* The player window's renderer before the window exists.
IdleSurf ==
  /\ surfStore = InitStore
  /\ pixi = "unmounted"
  /\ fogLayer = NoLayer
  /\ prevFogOpsLen = 0
  /\ surfSeen = [frame |-> NoFrame, store |-> InitStore, layer |-> NoLayer]

\* The objects of gameState.ts at module load.
IdleIso ==
  /\ heap = InitHeap
  /\ gsRef = InitRef
  /\ held = NoFrame
  /\ heldValue = NoFrame

\* No call made on the log yet, nothing rebuilt from it.
IdleLog ==
  /\ start = NoFrame
  /\ calls = <<>>
  /\ before = NoFrame
  /\ shown = NoLayer

\* The DM's canvas with no gesture under way (gameStore.ts, lines 45-46).
IdleStroke ==
  /\ activeTool = "fog-reveal"
  /\ brushRadius = 60
  /\ dmReady = FALSE
  /\ isPainting = FALSE
  /\ lastPaintPos = Null
  /\ strokeBuffer = <<>>
  /\ dmFogOps = <<>>
  /\ sent = <<>>
  /\ drawn = <<>>
  /\ samples = <<>>
  /\ strokes = 0
  /\ dmPrevLen = 0
  /\ replayed = <<>>
  /\ rebuilds = 0
  /\ handled = 0
  /\ echoes = <<>>

Init ==
  InitMain /\ IdleFog /\ IdleJoin /\ IdleSurf /\ IdleIso /\ IdleLog /\ IdleStroke

Mutation ==
  \/ CommitMap
  \/ AddFogOpHandler
  \/ BatchFogOps
  \/ ResetFogHandler
  \/ AddTokenHandler
  \/ UpdateTokenHandler
  \/ RemoveTokenHandler
  \/ SetTokenRadiusHandler
  \/ SetTokenLabelSizeHandler
  \/ SetTokenLabelVisibleHandler
  \/ SetPlayerViewportHandler
  \/ SetBattleHandler
  \/ SetMonsterRevealHandler

Next ==
  \/ Mutation
  \/ LoadSceneOpen
  \/ LoadSceneChoose
  \/ LoadSceneRead
  \/ LoadSceneConfirm
  \/ LoadPartyOpen
  \/ LoadPartyFinish
  \/ SaveSceneOpen
  \/ SaveSceneChoose
  \/ SaveSceneRead
  \/ SaveSceneWrite
  \/ HttpState

\* ---------------------------------------------------------------- SpecFog
InitFog ==
  /\ InitMain
  /\ IdleJoin
  /\ IdleSurf
  /\ IdleIso
  /\ IdleLog
  /\ IdleStroke
  /\ ops \in SeqsUpTo(FogOps, MaxLen)
  /\ rebuilt = FogInit
  /\ stepped = FogInit
  /\ n = 0
  /\ trail = <<>>
  /\ suffixed = FogInit
  /\ cut = 0
  /\ fogPc = "new"
  /\ redone = FogInit
  /\ over = FogInit
  /\ redoPc = "new"

\* fogLayer.applyOps(ops) on an initialised layer.
Rebuild ==
  /\ fogPc = "new"
  /\ rebuilt' = ApplyOps(rebuilt, ops)
  /\ fogPc' = "rebuilt"
  /\ UNCHANGED <<ops, stepped, n, trail, suffixed, cut, redone, over, redoPc, beyondFog>>

\* fogLayer.applyOneOp(ops[n]) for the next index.
StepOne ==
  /\ n < Len(ops)
  /\ stepped' = ApplyOneOp(stepped, ops[n + 1])
  /\ n' = n + 1
  /\ trail' = Append(trail, stepped)
  /\ UNCHANGED <<ops, rebuilt, suffixed, cut, fogPc, redone, over, redoPc, beyondFog>>

\* fogLayer.applyOps(ops.slice(i + 1)) for an index i holding a reset.
RebuildSuffix ==
  /\ cut = 0
  /\ \E i \in 1..Len(ops) :
       /\ ops[i].type = "reset"
       /\ cut' = i
       /\ suffixed' = ApplyOps(suffixed, SubSeq(ops, i + 1, Len(ops)))
  /\ UNCHANGED <<ops, rebuilt, stepped, n, trail, fogPc, redone, over, redoPc, beyondFog>>

\* fogLayer.applyOps(ops) on a layer whose raster holds what an earlier
\* rebuild, some prefix applied one by one, or a suffix rebuild left there.
RebuildOver ==
  /\ redoPc \in {"new", "once"}
  /\ \E prior \in {redone, stepped, suffixed, rebuilt} :
       /\ over' = prior
       /\ redone' = ApplyOps(prior, ops)
  /\ redoPc' = IF redoPc = "new" THEN "once" ELSE "twice"
  /\ UNCHANGED <<ops, rebuilt, stepped, n, trail, suffixed, cut, fogPc, beyondFog>>

NextFog == Rebuild \/ StepOne \/ RebuildSuffix \/ RebuildOver

vars == <<fogVars, mainVars, joinVars, surfVars, isoVars, logVars, strokeVars, laserVars>>

SpecFog == InitFog /\ [][NextFog]_vars

Spec == Init /\ [][Next]_vars

\* --------------------------------------------------------------- SpecJoin
\* A browser viewer joins while the DM keeps working (App.tsx, no window.api):
\* fetch('/state') and new EventSource('/events') are issued together and the
\* server handles the two requests in either order.
JoinMutation ==
  \/ CommitMap
  \/ AddFogOpHandler
  \/ ResetFogHandler
  \/ SetTokenRadiusHandler

\* App.tsx useEffect: both requests leave the browser.
ViewerMount ==
  /\ vFetch = "none"
  /\ vFetch' = "sent"
  /\ vEs' = "connecting"
  /\ UNCHANGED <<vBody, vStore, vGot, vSeq, subAt, beyondJoin, mainVars>>

\* The server answers the viewer's GET /state.
ServeState ==
  /\ vFetch = "sent"
  /\ vBody' = [body |-> StateBody, seq |-> nBcast]
  /\ vFetch' = "responded"
  /\ pullResp' = StateBody
  /\ UNCHANGED <<vEs, vStore, vGot, vSeq, subAt, beyondJoin, state, sseVars, outVars,
                 destroyed, playerWindow, loadVars, saveVars, nMut, nBcast, imageData>>

\* The server answers the viewer's GET /events: sseClients.push(res).
ServeEvents ==
  /\ vEs = "connecting"
  /\ Register("v")
  /\ vEs' = "open"
  /\ subAt' = [state |-> state, seq |-> nBcast]
  /\ UNCHANGED <<vFetch, vBody, vStore, vGot, vSeq, beyondJoin>>

\* .then((state) => applyState(state))
ViewerApplyPull ==
  /\ vFetch = "responded"
  /\ vStore' = ApplyState(vStore, vBody.body)
  /\ vSeq' = vBody.seq
  /\ vFetch' = "applied"
  /\ UNCHANGED <<vBody, vEs, vGot, subAt, beyondJoin, mainVars>>

\* es.onmessage = (e) => applyState(JSON.parse(e.data))
ViewerOnMessage ==
  /\ sseWire # <<>>
  /\ vStore' = ApplyState(vStore, Head(sseWire).frame)
  /\ vSeq' = Head(sseWire).seq
  /\ vGot' = vGot + 1
  /\ sseWire' = Tail(sseWire)
  /\ UNCHANGED <<vFetch, vBody, vEs, subAt, beyondJoin, state, sseVars, sseClients,
                 sseOut, sseFrame, ipcWire, dmMsg, playerMsg, destroyed, playerWindow,
                 pullResp, loadVars, saveVars, nMut, nBcast, imageData>>

NextJoin ==
  \/ JoinMutation
  \/ ViewerMount
  \/ ServeState
  \/ ServeEvents
  \/ ViewerApplyPull
  \/ ViewerOnMessage

SpecJoin == Init /\ [][NextJoin]_vars

\* --------------------------------------------------------------- SpecSurf
\* The player window as a display surface: STATE_UPDATE messages arrive in
\* order over IPC, each is applied to the window's store and MapCanvas reacts
\* with its effects; the DM keeps mutating the state meanwhile.
SurfMutation ==
  \/ CommitMap
  \/ AddFogOpHandler
  \/ BatchFogOps
  \/ ResetFogHandler

\* PlayerView renders <MapCanvas> only while the store has a map; the first
\* render with a map mounts it and starts app.init(); the first render
\* without one unmounts it (the effect cleanup destroys the layers, and the
\* next instance starts with prevFogOpsLenRef at 0).
\* While app.init() is pending the layer refs are null and both effects
\* return early.  With the layers in place the map effect runs first when the
\* store's map object changed, and the fogOps effect after it.
\* Without the layers the fogOps effect stops at `!fogLayer?.isReady'.
OnStateUpdate(incoming) ==
  LET s1 == ApplyState(surfStore, incoming)
      afterMap == MapEffect(fogLayer, prevFogOpsLen, s1.fogOps)
      onMap == IF s1.map # surfStore.map
                 THEN afterMap
                 ELSE [layer |-> fogLayer, prevLen |-> prevFogOpsLen]
      onFog == FogEffect(onMap.layer, onMap.prevLen, s1.fogOps)
      early == FogEffect(fogLayer, prevFogOpsLen, s1.fogOps)
  IN  /\ surfStore' = s1
      /\ IF s1.map = Null
           THEN /\ pixi' = "unmounted"
                /\ fogLayer' = NoLayer
                /\ prevFogOpsLen' = 0
         ELSE IF pixi = "unmounted"
           THEN /\ pixi' = "initing"
                /\ fogLayer' = early.layer
                /\ prevFogOpsLen' = early.prevLen
         ELSE IF pixi = "initing"
           THEN /\ fogLayer' = early.layer
                /\ prevFogOpsLen' = early.prevLen
                /\ UNCHANGED pixi
         ELSE /\ fogLayer' = onFog.layer
              /\ prevFogOpsLen' = onFog.prevLen
              /\ UNCHANGED pixi

SurfOnStateUpdate ==
  /\ ipcWire # <<>>
  /\ OnStateUpdate(Head(ipcWire))
  /\ surfSeen' = [frame |-> Head(ipcWire), store |-> surfStore, layer |-> fogLayer]
  /\ ipcWire' = Tail(ipcWire)
  /\ UNCHANGED <<state, sseVars, sseClients, sseOut, sseFrame, sseWire, dmMsg,
                 playerMsg, destroyed, playerWindow, pullResp, loadVars, saveVars,
                 nMut, nBcast, imageData, beyondSurf>>

SurfPixiReadyBlank ==
  /\ pixi = "initing"
  /\ pixi' = "ready"
  /\ fogLayer' = FogInit
  /\ prevFogOpsLen' = 0
  /\ UNCHANGED <<surfStore, surfSeen, mainVars, beyondSurf>>

\* app.init() resolves: the layers are created and, the store having a map,
\* the fog is initialised and rebuilt from the store's current log.
SurfPixiReady ==
  /\ pixi = "initing"
  /\ pixi' = "ready"
  /\ fogLayer' = ApplyOps(FogInit, surfStore.fogOps)
  /\ prevFogOpsLen' = Len(surfStore.fogOps)
  /\ UNCHANGED <<surfStore, surfSeen, mainVars, beyondSurf>>

InitSurf == Init

NextSurf ==
  \/ SurfMutation
  \/ LoadSceneOpen
  \/ LoadSceneChoose
  \/ LoadSceneRead
  \/ LoadSceneConfirm
  \/ OpenPlayerWindow
  \/ PlayerReadyToShow
  \/ SurfOnStateUpdate
  \/ SurfPixiReady

SpecSurf == InitSurf /\ [][NextSurf]_vars

\* ---------------------------------------------------------------- SpecIso
\* gameState.ts with its arrays as objects, called while SAVE_SCENE holds
\* the snapshot it took with getState (index.ts, line 343) across its await.
\* `state' is the value the store is meant to have; heap and gsRef are the
\* objects that implement it.
Store == [heap |-> heap, gs |-> gsRef, held |-> held]

\* One call of a mutating function: m2 at the level of objects, st2 as value.
Call(m2, st2) ==
  /\ nMut < MaxMut
  /\ heap' = Sweep(m2.heap, Roots(m2.gs, held))
  /\ gsRef' = m2.gs
  /\ state' = st2
  /\ nMut' = nMut + 1
  /\ UNCHANGED <<held, heldValue, sseVars, outVars, destroyed, playerWindow, pullResp,
                 loadVars, saveVars, nBcast, imageData, beyondIso>>

CallSetMap == \E map \in MapInfos : Call(RefSetMap(Store, map), SetMap(state, map))

CallAddFogOp == \E op \in StoreOps : Call(RefAddFogOp(Store, op), AddFogOp(state, op))

CallAddFogOps ==
  \E batch \in Batches : Call(RefAddFogOps(Store, batch), AddFogOps(state, batch))

CallResetFog == Call(RefResetFog(Store), ResetFog(state))

CallAddToken ==
  \E token \in NewTokens :
    /\ token.id \notin UsedIds
    /\ Call(RefAddToken(Store, token), AddToken(state, token))

CallUpdateToken ==
  \E token \in MovedTokens :
    Call(RefUpdateToken(Store, token), UpdateToken(state, token))

CallRemoveToken ==
  \E id \in TokenIds : Call(RefRemoveToken(Store, id), RemoveToken(state, id))

CallSetTokenRadius ==
  \E r \in {20, 30} : Call(RefSetTokenRadius(Store, r), SetTokenRadius(state, r))

CallImportParty ==
  \E id \in TokenIds \ UsedIds :
    Call(RefImportParty(Store, <<Token(id, 0)>>), ImportParty(state, <<Token(id, 0)>>))

CallLoadSave ==
  \E save \in {SaveOnDisk, SaveEmbedded, SaveOld} :
    Call(RefLoadSave(Store, save), LoadSave(state, save))

\* const state = gs.getState(): a holder takes a snapshot and keeps it.
TakeSnapshot ==
  /\ held = NoFrame
  /\ LET r == RefGetState(Store)
     IN  /\ heap' = r.heap
         /\ held' = r.held
  /\ heldValue' = state
  /\ UNCHANGED <<gsRef, mainVars, beyondIso>>

\* The holder writes to the snapshot it was given: it pushes an operation
\* onto the snapshot's log, or replaces the first token of the snapshot.
ModifySnapshot ==
  /\ held # NoFrame
  /\ \/ /\ Len(heap[held.fogOps]) < MaxLen
        /\ heap' = [heap EXCEPT ![held.fogOps] = Append(@, RevealB)]
        /\ heldValue' = [heldValue EXCEPT !.fogOps = Append(@, RevealB)]
     \/ /\ heap[held.tokens] # <<>>
        /\ heap[held.tokens][1] # Token("t2", 1)
        /\ heap' = [heap EXCEPT ![held.tokens][1] = Token("t2", 1)]
        /\ heldValue' = [heldValue EXCEPT !.tokens[1] = Token("t2", 1)]
  /\ UNCHANGED <<gsRef, held, mainVars, beyondIso>>

\* The holder is done with the snapshot (SAVE_SCENE has built its save).
DropSnapshot ==
  /\ held # NoFrame
  /\ held' = NoFrame
  /\ heldValue' = NoFrame
  /\ heap' = Sweep(heap, Roots(gsRef, NoFrame))
  /\ UNCHANGED <<gsRef, mainVars, beyondIso>>

NextIso ==
  \/ CallSetMap
  \/ CallAddFogOp
  \/ CallAddFogOps
  \/ CallResetFog
  \/ CallAddToken
  \/ CallUpdateToken
  \/ CallRemoveToken
  \/ CallSetTokenRadius
  \/ CallImportParty
  \/ CallLoadSave
  \/ TakeSnapshot
  \/ ModifySnapshot
  \/ DropSnapshot

SpecIso == Init /\ [][NextIso]_vars

\* ---------------------------------------------------------------- SpecLog
\* gameState.ts called in sequence on a state whose log is any log a save
\* file can have put there (loadSave takes fogOps as it finds them), with a
\* FogLayer of the map's size rebuilt from the log between calls.
LogOps == {RevealA, ResetOp}
CallOps == {RevealA, HideA, ResetOp}
CallBatches ==
  {<<ResetOp>>, <<RevealA>>, <<ResetOp, ResetOp>>, <<RevealA, ResetOp>>,
   <<RevealA, ResetOp, HideA>>}

InitLog ==
  /\ InitRest
  /\ laserOut = [c \in ClientIds |-> NoFrame]
  /\ playerLaser = NoFrame
  /\ IdleFog
  /\ IdleJoin
  /\ IdleSurf
  /\ IdleIso
  /\ IdleStroke
  /\ \E log \in SeqsUpTo(LogOps, MaxLen) : state = [InitState EXCEPT !.fogOps = log]
  /\ start = state
  /\ calls = <<>>
  /\ before = NoFrame
  /\ shown = NoLayer

\* One call of an exported function of gameState.ts.
LogCall(fn, arg, st2) ==
  /\ Len(calls) < MaxCalls
  /\ state' = st2
  /\ before' = state
  /\ calls' = Append(calls, [fn |-> fn, ops |-> arg])
  /\ shown' = NoLayer
  /\ UNCHANGED <<start, beyondLog>>

LogSetMap == LogCall("setMap", <<>>, SetMap(state, MapInfo("D1", Undefined)))

LogAddFogOp == \E op \in CallOps : LogCall("addFogOp", <<op>>, AddFogOp(state, op))

LogAddFogOps ==
  \E batch \in CallBatches : LogCall("addFogOps", batch, AddFogOps(state, batch))

LogResetFog == LogCall("resetFog", <<>>, ResetFog(state))

\* fogLayer.init and fogLayer.applyOps(state.fogOps) on a surface.
LogRebuild ==
  /\ shown = NoLayer
  /\ shown' = ApplyOps(FogInit, state.fogOps)
  /\ UNCHANGED <<state, start, calls, before, beyondLog>>

NextLog == LogSetMap \/ LogAddFogOp \/ LogAddFogOps \/ LogResetFog \/ LogRebuild

SpecLog == InitLog /\ [][NextLog]_vars

\* -------------------------------------------------------------- SpecFrame
\* The mutating functions of gameState.ts other than setMap and loadSave,
\* called one after the other on a store that already holds an image, a log
\* and tokens; each call is recorded with the state it found.
FrameStates ==
  {[InitState EXCEPT !.map = map, !.fogOps = log, !.tokens = toks] :
     map \in {Null, MapInfo("D1", Undefined)},
     log \in {<<>>, <<RevealA>>, <<ResetOp>>},
     toks \in {<<>>, <<Token("t1", 0)>>}}

InitFrame ==
  /\ InitRest
  /\ laserOut = [c \in ClientIds |-> NoFrame]
  /\ playerLaser = NoFrame
  /\ IdleFog
  /\ IdleJoin
  /\ IdleSurf
  /\ IdleIso
  /\ IdleStroke
  /\ state \in FrameStates
  /\ start = state
  /\ calls = <<>>
  /\ before = NoFrame
  /\ shown = NoLayer

\* One call of the function fn, which leaves the store as st2.
FrameCall(fn, st2) ==
  /\ nMut < MaxMut
  /\ state' = st2
  /\ before' = state
  /\ calls' = Append(calls, [fn |-> fn, ops |-> <<>>])
  /\ nMut' = nMut + 1
  /\ UNCHANGED <<start, shown, sseVars, outVars, destroyed, playerWindow, pullResp,
                 loadVars, saveVars, nBcast, imageData, fogVars, joinVars, surfVars,
                 isoVars, strokeVars, laserVars>>

\* addFogOp, addFogOps, resetFog
FrameFog ==
  \/ \E op \in CallOps : FrameCall("addFogOp", AddFogOp(state, op))
  \/ \E batch \in Batches : FrameCall("addFogOps", AddFogOps(state, batch))
  \/ FrameCall("resetFog", ResetFog(state))

\* addToken, updateToken, removeToken, importParty
FrameToken ==
  \/ \E token \in NewTokens :
       token.id \notin UsedIds /\ FrameCall("addToken", AddToken(state, token))
  \/ \E token \in MovedTokens : FrameCall("updateToken", UpdateToken(state, token))
  \/ \E id \in TokenIds : FrameCall("removeToken", RemoveToken(state, id))
  \/ \E id \in TokenIds \ UsedIds :
       FrameCall("importParty", ImportParty(state, <<Token(id, 0)>>))

\* setTokenRadius, setTokenLabelSize, setTokenLabelVisible, setPlayerViewport,
\* setBattle, setMonsterReveal
FrameSetting ==
  \/ \E r \in {20, 30} : FrameCall("setTokenRadius", SetTokenRadius(state, r))
  \/ \E size \in {14, 18} : FrameCall("setTokenLabelSize", SetTokenLabelSize(state, size))
  \/ \E visible \in BOOLEAN :
       FrameCall("setTokenLabelVisible", SetTokenLabelVisible(state, visible))
  \/ \E vp \in PlayerViewports \cup {Null} :
       FrameCall("setPlayerViewport", SetPlayerViewport(state, vp))
  \/ \E battle \in Battles \cup {Null} : FrameCall("setBattle", SetBattle(state, battle))
  \/ \E reveal \in MonsterReveals \cup {Null} :
       FrameCall("setMonsterReveal", SetMonsterReveal(state, reveal))

NextFrame == FrameFog \/ FrameToken \/ FrameSetting

SpecFrame == InitFrame /\ [][NextFrame]_vars

\* -------------------------------------------------------------- SpecClear
\* The player window while the DM only sets images and paints: the one
\* handler that empties the log here is LOAD_MAP:commit.
ClearMutation ==
  \/ CommitMap
  \/ AddFogOpHandler
  \/ BatchFogOps

NextClear ==
  \/ ClearMutation
  \/ OpenPlayerWindow
  \/ PlayerReadyToShow
  \/ SurfOnStateUpdate
  \/ SurfPixiReady

SpecClear == Init /\ [][NextClear]_vars

\* --------------------------------------------------------------- SpecView
\* A display surface on its own: the snapshots it is handed are any states
\* the authoritative store can hold (any image or none, any log), in any
\* order, as loadSave can take the store from any of them to any other.
ViewMaps == {Null, MapInfo("D1", Undefined), MapInfo("D2", Undefined)}
ViewStates ==
  {[InitState EXCEPT !.map = m, !.fogOps = log] :
     m \in ViewMaps, log \in SeqsUpTo(LogOps, MaxLen)}

\* onStateUpdate(applyState) with the MapCanvas effects that follow it.
ViewUpdate ==
  /\ \E incoming \in ViewStates : OnStateUpdate(incoming)
  /\ UNCHANGED <<surfSeen, mainVars, beyondSurf>>

NextView == ViewUpdate \/ SurfPixiReady

SpecView == Init /\ [][NextView]_vars

\* ------------------------------------------------------------- SpecStroke
\* The DM paints fog: pointer-down starts a gesture, every sample goes
\* through paintAt, pointer-up or pointer-leave flushes the stroke buffer.
\* Samples are map-space points with integer coordinates and the radii are
\* values of the brush slider (integers, DMView.tsx lines 229-235).
PaintTools == {"fog-reveal", "fog-hide"}
BrushRadii == {10, 15}
Samples == {<<0, 0>>, <<4, 0>>, <<100, 0>>, <<100, 1>>}

\* `dist > step' with dist = Math.sqrt(d2) and step = radius * 0.4: both
\* sides are non-negative, so the squares compare alike (25 * d2 against
\* 4 * radius^2).
Farther(d2, radius) == 25 * d2 > 4 * radius * radius

FloorSteps(d2, radius) ==
  CHOOSE k \in 0..(5 * d2 + 1) :
    /\ 4 * radius * radius * k * k <= 25 * d2
    /\ 4 * radius * radius * (k + 1) * (k + 1) > 25 * d2

\* Math.ceil(dist / step): the least k with k * step >= dist.
CeilSteps(d2, radius) ==
  CHOOSE k \in 1..(5 * d2 + 1) :
    /\ 4 * radius * radius * k * k >= 25 * d2
    /\ 4 * radius * radius * (k - 1) * (k - 1) < 25 * d2

LerpFromOrigin(last, delta, i, steps) == <<delta * i, steps>>

\* A coordinate last + delta * (i / steps), kept as numerator and denominator.
Lerp(last, delta, i, steps) == <<last * steps + delta * i, steps>>

\* paintAt: nothing without a ready layer; else the interpolated operations
\* between the last painted position and the sample (when farther apart than
\* the step), then the operation at the sample; each is applied to the DM's
\* raster and pushed on the stroke buffer.
PaintAt(p, tool, radius, last, buffer, done) ==
  IF ~dmReady THEN [buffer |-> buffer, drawn |-> done, last |-> last]
  ELSE LET opType == IF tool = "fog-reveal" THEN "reveal-circle" ELSE "hide-circle"
           dx == IF last = Null THEN 0 ELSE p[1] - last[1]
           dy == IF last = Null THEN 0 ELSE p[2] - last[2]
           d2 == dx * dx + dy * dy
           steps == IF last # Null /\ Farther(d2, radius) THEN CeilSteps(d2, radius) ELSE 1
           between == [i \in 1..(steps - 1) |->
                         Circle(opType, Lerp(last[1], dx, i, steps),
                                Lerp(last[2], dy, i, steps), radius)]
           all == Append(between, Circle(opType, <<p[1], 1>>, <<p[2], 1>>, radius))
       IN  [buffer |-> buffer \o all, drawn |-> done \o all, last |-> p]

\* The fogOps effect on the DM canvas, by what it applies: nothing without a
\* ready layer or for an equal length; a full rebuild for an empty or shorter
\* log; else applyOneOp for each operation past prevLen.
DmFogEffect(fogOps) ==
  IF ~dmReady THEN [prevLen |-> dmPrevLen, replayed |-> replayed, rebuilds |-> rebuilds]
  ELSE LET newLen == Len(fogOps)
       IN  [prevLen |-> newLen,
            replayed |-> IF newLen > dmPrevLen /\ newLen # 0
                           THEN replayed \o SubSeq(fogOps, dmPrevLen + 1, newLen)
                           ELSE replayed,
            rebuilds |-> IF newLen # dmPrevLen /\ (newLen = 0 \/ newLen < dmPrevLen)
                           THEN rebuilds + 1
                           ELSE rebuilds]

CommitStrokeOpByOp(stroke) ==
  [sent |-> sent \o [i \in 1..Len(stroke) |-> <<stroke[i]>>],
   fogOps |-> dmFogOps \o stroke]

\* gameStore.commitStroke: one batchFogOps message, and the optimistic
\* append to the DM's own store; nothing for an empty array.
CommitStroke(stroke) ==
  IF Len(stroke) = 0 THEN [sent |-> sent, fogOps |-> dmFogOps]
  ELSE [sent |-> Append(sent, stroke), fogOps |-> dmFogOps \o stroke]

\* The DM has picked a fog tool and a brush size on the toolbar
\* (setActiveTool / setBrushRadius) before the first gesture.
InitStroke ==
  /\ InitMain
  /\ IdleFog
  /\ IdleJoin
  /\ IdleSurf
  /\ IdleIso
  /\ IdleLog
  /\ activeTool \in PaintTools
  /\ brushRadius \in BrushRadii
  /\ dmReady = FALSE
  /\ isPainting = FALSE
  /\ lastPaintPos = Null
  /\ strokeBuffer = <<>>
  /\ dmFogOps = <<>>
  /\ sent = <<>>
  /\ drawn = <<>>
  /\ samples = <<>>
  /\ strokes = 0
  /\ dmPrevLen = 0
  /\ replayed = <<>>
  /\ rebuilds = 0
  /\ handled = 0
  /\ echoes = <<>>

\* The DM canvas's app.init() resolves and its fog layer is initialised.
DmPixiReady ==
  /\ ~dmReady
  /\ dmReady' = TRUE
  /\ dmPrevLen' = Len(dmFogOps)
  /\ UNCHANGED <<activeTool, brushRadius, isPainting, lastPaintPos, strokeBuffer,
                 dmFogOps, sent, drawn, samples, strokes, replayed, rebuilds,
                 handled, echoes, beyondStroke>>

\* onPointerDown with a fog tool at p: the gesture starts on a new, empty
\* buffer.
PointerDownAt(p) ==
  /\ LET r == PaintAt(p, activeTool, brushRadius, Null, <<>>, drawn)
     IN  /\ isPainting' = TRUE
         /\ lastPaintPos' = r.last
         /\ strokeBuffer' = r.buffer
         /\ drawn' = r.drawn
         /\ samples' = <<p>>
  /\ strokes' = strokes + 1
  /\ UNCHANGED <<activeTool, brushRadius, dmReady, dmFogOps, sent, editVars,
                 beyondStroke>>

PointerDown ==
  /\ strokes < MaxStrokes
  /\ \E p \in Samples : PointerDownAt(p)

\* onPointerMove to p while painting with a fog tool.
PointerMoveAt(p) ==
  /\ isPainting
  /\ LET r == PaintAt(p, activeTool, brushRadius, lastPaintPos, strokeBuffer, drawn)
     IN  /\ lastPaintPos' = r.last
         /\ strokeBuffer' = r.buffer
         /\ drawn' = r.drawn
         /\ samples' = Append(samples, p)
  /\ UNCHANGED <<activeTool, brushRadius, dmReady, isPainting, dmFogOps, sent,
                 strokes, editVars, beyondStroke>>

PointerMove ==
  /\ Len(samples) <= MaxMoves
  /\ \E p \in Samples : PointerMoveAt(p)

\* onPointerUp: the gesture ends and a non-empty buffer is flushed; the
\* store's new log then runs the canvas's fogOps effect.
PointerUp ==
  /\ isPainting' = FALSE
  /\ lastPaintPos' = Null
  /\ IF Len(strokeBuffer) > 0
       THEN LET c == CommitStroke(strokeBuffer)
                e == DmFogEffect(c.fogOps)
            IN  /\ sent' = c.sent
                /\ dmFogOps' = c.fogOps
                /\ strokeBuffer' = <<>>
                /\ dmPrevLen' = e.prevLen
                /\ replayed' = e.replayed
                /\ rebuilds' = e.rebuilds
       ELSE UNCHANGED <<sent, dmFogOps, strokeBuffer, dmPrevLen, replayed, rebuilds>>
  /\ UNCHANGED <<activeTool, brushRadius, dmReady, drawn, samples, strokes,
                 handled, echoes, beyondStroke>>

\* onPointerLeave: the cursors are cleared, then onPointerUp(e).
PointerLeave == PointerUp

NextStroke ==
  \/ DmPixiReady
  \/ PointerDown
  \/ PointerMove
  \/ PointerUp
  \/ PointerLeave

SpecStroke == InitStroke /\ [][NextStroke]_vars

\* --------------------------------------------------------------- SpecEdit
\* The DM paints on a store that already holds a log: gestures start, also
\* while one is active, and are flushed; the main process handles each batch
\* and its broadcast comes back to the DM window.
EditReset == Circle("reset", <<0, 1>>, <<0, 1>>, 0)
EditLogs == {<<>>, <<Circle("hide-circle", <<1, 1>>, <<0, 1>>, 60)>>, <<EditReset>>}
EditSamples == {<<0, 0>>, <<4, 0>>}

InitEdit ==
  /\ \E log \in EditLogs :
       /\ state = [InitState EXCEPT !.map = MapInfo("D1", Undefined), !.fogOps = log]
       /\ dmFogOps = log
  /\ InitRest
  /\ laserOut = [c \in ClientIds |-> NoFrame]
  /\ playerLaser = NoFrame
  /\ IdleFog /\ IdleJoin /\ IdleSurf /\ IdleIso /\ IdleLog
  /\ activeTool = "fog-reveal"
  /\ brushRadius = 60
  /\ dmReady = FALSE
  /\ isPainting = FALSE
  /\ lastPaintPos = Null
  /\ strokeBuffer = <<>>
  /\ sent = <<>>
  /\ drawn = <<>>
  /\ samples = <<>>
  /\ strokes = 0
  /\ dmPrevLen = 0
  /\ replayed = <<>>
  /\ rebuilds = 0
  /\ handled = 0
  /\ echoes = <<>>

EditPointerDown ==
  /\ strokes <= MaxStrokes
  /\ \E p \in EditSamples : PointerDownAt(p)

EditPointerMove ==
  /\ Len(samples) <= MaxMoves
  /\ \E p \in EditSamples : PointerMoveAt(p)

\* ipcMain.on(BATCH_FOG_OPS) for the next batch the DM sent: addFogOps, then
\* broadcastState, whose snapshot sets off for the DM window.
EditBatchFogOps ==
  /\ handled < Len(sent)
  /\ Mutate(AddFogOps(state, sent[handled + 1]), sseMapDataUrlCache, imageData)
  /\ handled' = handled + 1
  /\ echoes' = Append(echoes, GetState(state'))
  /\ pullResp' = NoFrame
  /\ UNCHANGED saveVars
  /\ UNCHANGED <<destroyed, playerWindow, loadVars, fogVars, joinVars, surfVars,
                 isoVars, logVars, laserVars>>
  /\ UNCHANGED <<activeTool, brushRadius, dmReady, isPainting, lastPaintPos,
                 strokeBuffer, dmFogOps, sent, drawn, samples, strokes, dmPrevLen,
                 replayed, rebuilds>>

\* onStateUpdate in the DM window: applyState takes the snapshot's log and
\* the canvas's fogOps effect runs on it.
EditOnStateUpdate ==
  /\ echoes # <<>>
  /\ LET e == DmFogEffect(Head(echoes).fogOps)
     IN  /\ dmFogOps' = Head(echoes).fogOps
         /\ dmPrevLen' = e.prevLen
         /\ replayed' = e.replayed
         /\ rebuilds' = e.rebuilds
  /\ echoes' = Tail(echoes)
  /\ UNCHANGED <<activeTool, brushRadius, dmReady, isPainting, lastPaintPos,
                 strokeBuffer, sent, drawn, samples, strokes, handled, beyondStroke>>

NextEdit ==
  \/ DmPixiReady
  \/ EditPointerDown
  \/ EditPointerMove
  \/ PointerUp
  \/ EditBatchFogOps
  \/ EditOnStateUpdate

SpecEdit == InitEdit /\ [][NextEdit]_vars

\* --------------------------------------------------------------- SpecPush
\* The main process with its push consumers: SSE clients register, their
\* sockets die and close, the player window opens and closes, the DM mutates
\* the state and moves the laser pointer.
PushRegister == \E c \in {"c1", "c2"} : Register(c) /\ UNCHANGED beyondMain

PushMutation ==
  /\ nMut < MaxMut
  /\ \/ CommitMap
     \/ SetBattleHandler

NextPush ==
  \/ PushMutation
  \/ PushRegister
  \/ SocketDestroyed
  \/ HttpClose

SpecPush == Init /\ [][NextPush]_vars

\* --------------------------------------------------------------- SpecPeer
\* The main process and its local peers: the player window opens, shows and
\* closes while the DM mutates the state and loads scenes.
NextPeer ==
  \/ PushMutation
  \/ LoadSceneOpen
  \/ LoadSceneChoose
  \/ LoadSceneRead
  \/ LoadSceneConfirm
  \/ OpenPlayerWindow
  \/ PlayerReadyToShow
  \/ PlayerClosed

SpecPeer == Init /\ [][NextPeer]_vars

\* -------------------------------------------------------------- SpecImage
\* Images reach the state from the map dialog and from scene files while an
\* SSE client registers and its socket dies.
ImageMutation ==
  /\ nMut < MaxMut
  /\ CommitMap

NextImage ==
  \/ ImageMutation
  \/ LoadSceneOpen
  \/ LoadSceneChoose
  \/ LoadSceneRead
  \/ LoadSceneConfirm
  \/ HttpEvents
  \/ SocketDestroyed

SpecImage == Init /\ [][NextImage]_vars

\* -------------------------------------------------------------- SpecLaser
\* The laser pointer next to the snapshot stream: the DM moves the pointer
\* and changes the battle while clients register and die and the player
\* window opens and closes.
LaserMutation ==
  /\ nMut < MaxMut
  /\ SetBattleHandler

NextLaser ==
  \/ LaserMutation
  \/ LaserPointer
  \/ PushRegister
  \/ SocketDestroyed
  \/ OpenPlayerWindow
  \/ PlayerClosed

SpecLaser == Init /\ [][NextLaser]_vars

\* ----------------------------------------------------- claims under Spec
\* A step in which LOAD_SCENE applied the save file it was working on.
LoadApplied == loadPc # "idle" /\ loadPc' = "idle" /\ loadResult' = "success" /\ nMut' # nMut

\* C3: whenever the state has an image, the body of a /state response carries
\* a non-empty payload for it.
C3_PullIsFull ==
  (pullResp # NoFrame /\ pullResp.map # Null) => pullResp.map.dataUrl # ""

\* C4: in every SSE broadcast of a state with an image, the frame's payload is
\* empty when the image identity equals the one remembered from the previous
\* broadcast, and is the non-empty payload of the current image when it
\* differs; the remembered identity becomes the current one.
C4_LiteFrameRule ==
  [][(nBcast' # nBcast /\ state'.map # Null) =>
       /\ MapKey(state') = sseLastMapKey => sseFrame'.map.dataUrl = ""
       /\ MapKey(state') # sseLastMapKey =>
            sseFrame'.map.dataUrl = imageData' /\ imageData' # ""
       /\ sseLastMapKey' = MapKey(state')]_vars

\* C4 witness: a frame with the payload stripped has gone out for an image
\* that was first sent in full by an earlier broadcast.
C4_Witness ==
  /\ nBcast >= 2
  /\ state.map # Null
  /\ sseFrame.map.dataUrl = ""
  /\ imageData # ""
  /\ sseLastMapKey = MapKey(state)

\* C5: the first SSE frame after a load carries the loaded image's payload,
\* whatever identity was remembered before the load.
C5_LoadResendsPayload ==
  [][(LoadApplied /\ state'.map # Null) =>
       sseFrame'.map.dataUrl = imageData' /\ imageData' # ""]_vars

\* C6: a load replaces every field: the state after it is the save file's
\* content with nothing left of the state before, and the broadcast of the same
\* step carries exactly that state.
C6_LoadReplacesEveryField ==
  [][LoadApplied =>
       /\ state' = [map |-> loadFile.map,
                    fogOps |-> loadFile.fogOps,
                    tokens |-> loadFile.tokens,
                    tokenRadius |-> loadFile.tokenRadius,
                    tokenLabelSize |-> loadFile.tokenLabelSize,
                    tokenLabelVisible |-> loadFile.tokenLabelVisible,
                    playerViewport |-> OrNull(loadFile.playerViewport),
                    battle |-> OrNull(loadFile.battle),
                    monsterReveal |-> Null]
       /\ dmMsg' = state']_vars

\* C7: each mutation is followed by exactly one broadcast before the next
\* one: between handlers the broadcasts counted equal the mutations counted and
\* the last snapshot sent is the state as the last mutation left it; a step
\* that changes the state is a step that broadcasts the new state once.
C7_OneBroadcastPerMutation ==
  /\ nBcast = nMut
  /\ nMut > 0 => dmMsg = state /\ sseFrame # NoFrame

\* C7 witness: two mutations have been broadcast while LOAD_SCENE waits on
\* its version warning, LOAD_PARTY on its dialog and SAVE_SCENE on readFile.
C7_Witness ==
  /\ loadPc = "confirm"
  /\ partyPc = "pending"
  /\ savePc = "reading"
  /\ nMut = 2
  /\ nBcast = 2
  /\ state.fogOps # <<>>
  /\ dmMsg = state

\* C9: once the log has been replayed in full by applyOps on one layer and
\* op by op with applyOneOp on another, both from an opaque raster, the two
\* masks are equal pixel for pixel.
C9_RebuildEqualsStepwise ==
  (fogPc = "rebuilt" /\ n = Len(ops)) => rebuilt.mask = stepped.mask

\* C9 witness: a log with a reset in the middle, a malformed polygon and a
\* drawn circle has been replayed both ways and the mask is not opaque.
C9_Witness ==
  /\ fogPc = "rebuilt"
  /\ n = Len(ops)
  /\ Len(ops) = MaxLen
  /\ \E i \in 1..(Len(ops) - 1) : ops[i].type = "reset"
  /\ \E i \in 1..Len(ops) : ops[i] = PolyBad
  /\ stepped.mask # Opaque

\* C10: for an index i with ops[i] a reset, applyOps of the whole log and
\* applyOps of the suffix after i give the same mask.
C10_RebuildFromAnyReset ==
  (fogPc = "rebuilt" /\ cut > 0) => rebuilt.mask = suffixed.mask

\* C10 witness: the reset used is not the last one of the log (another
\* follows it) and the operations after the last one leave a mask that is
\* not opaque.
C10_Witness ==
  /\ fogPc = "rebuilt"
  /\ cut >= 1
  /\ \E j \in (cut + 1)..Len(ops) : ops[j].type = "reset"
  /\ suffixed.mask # Opaque

\* --------------------------------------------------- claims under SpecJoin
\* C2: a joining viewer misses no update.  Once the pull response has been
\* applied and the subscription is registered, and before any push frame is
\* applied, the viewer holds a state at least as new as the authoritative
\* state at registration; and no later step (a late pull response included)
\* replaces the state the viewer holds by an older one.
C2_JoinMissesNothing ==
  /\ [](vFetch = "applied" /\ vEs = "open" /\ vGot = 0
          => \/ vSeq >= subAt.seq
             \/ vStore = ApplyState(InitStore, subAt.state))
  /\ [][vSeq' >= vSeq]_vars

\* What applyState is to have made of the store `old' on taking `incoming'.
Applied(old, new, incoming) ==
  /\ incoming.map = Null => new.map = Null
  /\ (incoming.map # Null /\ incoming.map.dataUrl = "") => new.map = old.map
  /\ (incoming.map # Null /\ incoming.map.dataUrl # ""
        /\ (old.map = Null \/ old.map.dataUrl # incoming.map.dataUrl)) =>
       new.map = incoming.map
  /\ new.fogOps = incoming.fogOps
  /\ new.tokens = incoming.tokens
  /\ new.tokenRadius = incoming.tokenRadius
  /\ new.tokenLabelSize = incoming.tokenLabelSize
  /\ new.tokenLabelVisible = incoming.tokenLabelVisible
  /\ new.playerViewport = incoming.playerViewport

\* C36: when the viewer applies a push frame or the pull response, an
\* incoming image without payload leaves the held image as it was, a null
\* image clears it, a payload that differs from the held one replaces it, and
\* the log, the tokens and the settings become the incoming ones.
C36_LiteKeepsImage ==
  [][/\ vGot' # vGot => Applied(vStore, vStore', Head(sseWire).frame)
     /\ (vFetch = "responded" /\ vFetch' = "applied") =>
          Applied(vStore, vStore', vBody.body)]_vars

\* C36 witness: the viewer holds an image with its payload and has applied
\* the latest frame, a lite one, whose log it now holds.
C36_Witness ==
  /\ vGot >= 2
  /\ sseWire = <<>>
  /\ vSeq = nBcast
  /\ sseFrame.map # Null
  /\ sseFrame.map.dataUrl = ""
  /\ vStore.map # Null
  /\ vStore.map.dataUrl # ""
  /\ vStore.fogOps = sseFrame.fogOps
  /\ vStore.fogOps # <<>>

\* C37: a rebuild of the log over any raster content gives the mask of a
\* rebuild over a fresh layer, so a second rebuild, or a rebuild made after
\* another one of the same log, gives what a single rebuild gives.
C37_RebuildDependsOnLogOnly ==
  /\ redoPc \in {"once", "twice"} => redone.mask = ApplyOps(FogInit, ops).mask
  /\ (redoPc \in {"once", "twice"} /\ fogPc = "rebuilt") => redone.mask = rebuilt.mask

\* C37 witness: a second rebuild was made over a raster that was not opaque
\* and that differs from what the rebuild left.
C37_Witness ==
  /\ redoPc = "twice"
  /\ fogPc = "rebuilt"
  /\ over.mask # Opaque
  /\ over.mask # redone.mask
  /\ redone.mask # Opaque

\* C38: a LOAD_MAP:commit leaves the authoritative log empty and sends the
\* window a snapshot with an empty log, whatever the state was and whether or
\* not the image is the one held before; and a surface that is ready after
\* processing a snapshot with an empty log shows a fully opaque mask.
C38_SetMapClears ==
  [][/\ CommitMap =>
          /\ state'.fogOps = <<>>
          /\ ipcWire' # ipcWire => ipcWire'[Len(ipcWire')].fogOps = <<>>
     /\ (ipcWire # <<>> /\ ipcWire' = Tail(ipcWire) /\ playerWindow' = playerWindow
          /\ Head(ipcWire).fogOps = <<>> /\ fogLayer'.ready) =>
          fogLayer'.mask = Opaque]_vars

\* C38 witness: a ready surface whose mask was not opaque has processed a
\* snapshot with an empty log and the image it already held, and its mask
\* is opaque now.
C38_Witness ==
  /\ surfSeen.frame # NoFrame
  /\ surfSeen.frame.fogOps = <<>>
  /\ surfSeen.frame.map # Null
  /\ surfSeen.store.map # Null
  /\ surfSeen.frame.map.dataUrl = surfSeen.store.map.dataUrl
  /\ surfSeen.store.fogOps # <<>>
  /\ surfSeen.layer.ready
  /\ surfSeen.layer.mask # Opaque
  /\ pixi = "ready"
  /\ fogLayer.ready
  /\ fogLayer.mask = Opaque
  /\ state.fogOps = <<>>

\* The fields of the store that the last call changed.
Changed == {f \in DOMAIN state : state[f] # before[f]}

\* The one field a function is to write.
OwnField(fn) ==
  CASE fn \in {"addFogOp", "addFogOps", "resetFog"} -> "fogOps"
    [] fn \in {"addToken", "updateToken", "removeToken", "importParty"} -> "tokens"
    [] fn = "setTokenRadius" -> "tokenRadius"
    [] fn = "setTokenLabelSize" -> "tokenLabelSize"
    [] fn = "setTokenLabelVisible" -> "tokenLabelVisible"
    [] fn = "setPlayerViewport" -> "playerViewport"
    [] fn = "setBattle" -> "battle"
    [] fn = "setMonsterReveal" -> "monsterReveal"

\* C39: a call of addFogOp, addFogOps or resetFog changes nothing but the
\* log; a call of a token or a setting function changes nothing but its own
\* field, so it leaves the log and the image as they were.
C39_MutationFrame ==
  calls # <<>> =>
    /\ Changed \subseteq {OwnField(calls[Len(calls)].fn)}
    /\ OwnField(calls[Len(calls)].fn) # "fogOps" =>
         state.fogOps = before.fogOps /\ state.map = before.map

\* C39 witness: on a store with an image, a log and a token, a fog call
\* changed the log and then a token call changed the tokens.
C39_Witness ==
  /\ Len(calls) = 2
  /\ start.map # Null
  /\ start.fogOps = <<RevealA>>
  /\ calls[1].fn = "addFogOps"
  /\ before.fogOps # start.fogOps
  /\ calls[2].fn = "removeToken"
  /\ Changed = {"tokens"}
  /\ state.fogOps = before.fogOps
  /\ state.map = start.map

\* --------------------------------------------------- claims under SpecSurf
\* C1: a surface whose raster is ready and which has processed the latest
\* broadcast snapshot shows the mask of a full rebuild of the authoritative
\* log.
C1_SurfaceConverges ==
  (pixi = "ready" /\ fogLayer.ready /\ playerWindow = "shown" /\ ipcWire = <<>>)
    => fogLayer.mask = ApplyOps(FogInit, state.fogOps).mask

\* C27: when a ready surface whose map stays the same takes in a snapshot,
\* a log as long as the log it rendered last is that log, and a longer log
\* begins with it.
C27_LengthClassificationSound ==
  [][(pixi = "ready" /\ fogLayer.ready /\ prevFogOpsLen = Len(surfStore.fogOps)
        /\ surfStore' # surfStore /\ surfStore'.map = surfStore.map) =>
       LET old == surfStore.fogOps
           new == surfStore'.fogOps
       IN  /\ Len(new) = Len(old) => new = old
           /\ Len(new) > Len(old) => SubSeq(new, 1, Len(old)) = old]_vars

\* ---------------------------------------------------- claims under SpecIso
\* C8: snapshot isolation.  A snapshot a holder got from getState reads, for
\* as long as it is held, as the state of the moment it was taken plus the
\* holder's own writes, whatever the store does meanwhile; and the store
\* reads as its own mutations left it, whatever a holder writes to a
\* snapshot.
C8_SnapshotIsolation ==
  /\ Deref(heap, gsRef) = state
  /\ held # NoFrame => Deref(heap, held) = heldValue

\* C8 witness: a snapshot taken of the log [RevealA] is still held after its
\* holder pushed RevealB onto it and the store pushed HideA, in place, onto
\* its own log.
C8_Witness ==
  /\ held # NoFrame
  /\ heldValue.fogOps = <<RevealA, RevealB>>
  /\ state.fogOps = <<RevealA, HideA>>
  /\ Deref(heap, held).fogOps = <<RevealA, RevealB>>

\* -------------------------------------------------- claims under SpecLog
\* The last call made on the log, and whether it appended resets only.
LastCall == calls[Len(calls)]
AppendedReset ==
  /\ calls # <<>>
  /\ LastCall.fn \in {"addFogOp", "addFogOps"}
  /\ LastCall.ops # <<>>
  /\ \A i \in 1..Len(LastCall.ops) : LastCall.ops[i].type = "reset"

\* C11: after addFogOp(op) the log is [op] when op is a reset, [op] when the
\* old log was empty or ended in a reset, and the old log followed by op
\* otherwise.
C11_AppendRule ==
  (calls # <<>> /\ LastCall.fn = "addFogOp") =>
    LET op == LastCall.ops[1]
        old == before.fogOps
    IN  state.fogOps =
          IF op.type = "reset" THEN <<op>>
          ELSE IF old = <<>> \/ old[Len(old)].type = "reset" THEN <<op>>
          ELSE old \o <<op>>

\* C11 witness: a reveal was appended to a two-element log ending in a reset
\* and replaced it.
C11_Witness ==
  /\ calls # <<>>
  /\ LastCall = [fn |-> "addFogOp", ops |-> <<HideA>>]
  /\ before.fogOps = <<RevealA, ResetOp>>
  /\ state.fogOps = <<HideA>>

\* C12: whenever the last call appended a reset (addFogOp of a reset, or
\* addFogOps of resets only), however many such calls came before it, the
\* log has exactly one element and it is a reset.
C12_ResetIdempotent ==
  AppendedReset => Len(state.fogOps) = 1 /\ state.fogOps[1].type = "reset"

\* C12 witness: two calls in a row appended a reset to what started as a log
\* of two or more operations.
C12_Witness ==
  /\ Len(calls) >= 2
  /\ AppendedReset
  /\ calls[Len(calls) - 1] = [fn |-> "addFogOps", ops |-> <<ResetOp>>]
  /\ Len(start.fogOps) >= 2
  /\ before.fogOps = <<ResetOp>>
  /\ state.fogOps = <<ResetOp>>

\* C18: from the empty state, setMap, then the append of one reveal-circle,
\* then the append of a reset leave the log [reset], and a raster rebuilt
\* from it is fully opaque.
C18_Scenario ==
  /\ start = InitState
  /\ Len(calls) = 3
  /\ calls[1].fn = "setMap"
  /\ calls[2] = [fn |-> "addFogOps", ops |-> <<RevealA>>]
  /\ calls[3] = [fn |-> "addFogOps", ops |-> <<ResetOp>>]

C18_ResetScenario ==
  C18_Scenario => /\ state.fogOps = <<ResetOp>>
                  /\ shown.ready => shown.mask = Opaque

\* C18 witness: the scenario has run and the raster has been rebuilt.
C18_Witness == C18_Scenario /\ shown.ready /\ before.fogOps = <<RevealA>>

\* C31: in every state reached from the empty state by setMap, addFogOp,
\* addFogOps and resetFog, a log that contains a reset is the one-element
\* log [reset]; so a rebuild replays from the first operation, or the log is
\* [reset].
C31_ResetPosition ==
  start = InitState =>
    /\ (\E i \in 1..Len(state.fogOps) : state.fogOps[i].type = "reset")
         => state.fogOps = <<ResetOp>>
    /\ FindReplayStart(state.fogOps) = 1 \/ state.fogOps = <<ResetOp>>

\* C31 witness: from the empty state, a batch ending in a reset arrived on a
\* log of one reveal, after a resetFog, and left [reset].
C31_Witness ==
  /\ start = InitState
  /\ Len(calls) = 3
  /\ calls[1].fn = "resetFog"
  /\ calls[2] = [fn |-> "addFogOp", ops |-> <<RevealA>>]
  /\ calls[3] = [fn |-> "addFogOps", ops |-> <<RevealA, ResetOp>>]
  /\ state.fogOps = <<ResetOp>>
  /\ FindReplayStart(state.fogOps) = 2

\* addFogOp called on the elements i, i+1, ... of a batch, in order.
RECURSIVE EachInOrder(_, _, _)
EachInOrder(st, batch, i) ==
  IF i > Len(batch) THEN st ELSE EachInOrder(AddFogOp(st, batch[i]), batch, i + 1)

\* The index of the last reset of a batch, 0 when it has none.
LastReset(batch) ==
  IF \E i \in 1..Len(batch) : batch[i].type = "reset"
    THEN CHOOSE i \in 1..Len(batch) :
           /\ batch[i].type = "reset"
           /\ \A j \in (i + 1)..Len(batch) : batch[j].type # "reset"
    ELSE 0

\* C32: addFogOps(batch) leaves the log that addFogOp on each element in
\* order leaves: with a reset in the batch, what follows the last reset of
\* the batch, or [reset] when nothing follows; without one, the batch after
\* the old log, or the batch alone when the old log was empty or ended in a
\* reset.
C32_BatchEqualsSequential ==
  (calls # <<>> /\ LastCall.fn = "addFogOps") =>
    LET batch == LastCall.ops
        old == before.fogOps
        k == LastReset(batch)
        rest == SubSeq(batch, k + 1, Len(batch))
    IN  /\ state.fogOps = EachInOrder(before, batch, 1).fogOps
        /\ k > 0 => state.fogOps = (IF rest = <<>> THEN <<batch[k]>> ELSE rest)
        /\ k = 0 => state.fogOps =
                      (IF old = <<>> \/ old[Len(old)].type = "reset"
                         THEN batch ELSE old \o batch)

\* C32 witness: a batch of a reveal, a reset and a hide arrived on a log of
\* two reveals and left the hide alone: the log and the batch's own reveal
\* are gone.
C32_Witness ==
  /\ calls # <<>>
  /\ LastCall = [fn |-> "addFogOps", ops |-> <<RevealA, ResetOp, HideA>>]
  /\ before.fogOps = <<RevealA, RevealA>>
  /\ state.fogOps = <<HideA>>

\* ------------------------------------------------- claims under SpecView
\* applyOne over the operations of a sequence, in order, without clearing.
RECURSIVE StepEach(_, _)
StepEach(layer, seq) ==
  IF seq = <<>> THEN layer ELSE StepEach(ApplyOneOp(layer, Head(seq)), Tail(seq))

\* C13: when a ready surface whose image stays the same takes in a log of
\* length newLen against the rendered length prevLen, an equal length draws
\* nothing, a greater one applies exactly the operations prevLen..newLen-1
\* one by one without clearing, a smaller one rebuilds, and prevLen becomes
\* newLen in all three cases.
C13_UpdateRule ==
  [][(pixi = "ready" /\ pixi' = "ready" /\ fogLayer.ready
        /\ surfStore'.map = surfStore.map) =>
       LET log == surfStore'.fogOps
           newLen == Len(log)
           prevLen == prevFogOpsLen
       IN  /\ prevFogOpsLen' = newLen
           /\ newLen = prevLen => fogLayer' = fogLayer
           /\ newLen > prevLen =>
                fogLayer' = StepEach(fogLayer, SubSeq(log, prevLen + 1, newLen))
           /\ newLen < prevLen => fogLayer' = ApplyOps(fogLayer, log)]_vars

\* C13 witness: the surface rendered [reset], was handed [reveal, reveal] and
\* applied only the second operation, which a rebuild would not have left.
C13_Witness ==
  /\ pixi = "ready"
  /\ surfStore.fogOps = <<RevealA, RevealA>>
  /\ prevFogOpsLen = 2
  /\ fogLayer = ApplyOneOp(ApplyOps(FogInit, <<ResetOp>>), RevealA)
  /\ fogLayer # ApplyOps(FogInit, surfStore.fogOps)

\* C14: while the surface has no raster, updates leave the layer and prevLen
\* as they are; in the step that creates the raster the mask becomes the
\* rebuild of the surface's current log and prevLen that log's length.
C14_NothingLostBeforeReady ==
  [][/\ (~fogLayer.ready /\ ~fogLayer'.ready) =>
          fogLayer' = fogLayer /\ prevFogOpsLen' = prevFogOpsLen
     /\ (~fogLayer.ready /\ fogLayer'.ready) =>
          /\ fogLayer'.mask = ApplyOps(FogInit, surfStore'.fogOps).mask
          /\ prevFogOpsLen' = Len(surfStore'.fogOps)]_vars

\* C14 witness: a log of two operations has reached the surface while
\* app.init() is pending; nothing is drawn and prevLen has not moved.
C14_Witness ==
  /\ pixi = "initing"
  /\ surfStore.fogOps = <<RevealA, RevealA>>
  /\ ~fogLayer.ready
  /\ prevFogOpsLen = 0

\* ----------------------------------------------- claims under SpecStroke
\* C15: a step that leaves a gesture under way sends nothing; the step that
\* ends a gesture sends the whole buffer as one batch when it is non-empty
\* and nothing when it is empty, and leaves the buffer empty; with no
\* gesture under way nothing is sent.
C15_OneFlushPerGesture ==
  [][/\ isPainting' => sent' = sent
     /\ (isPainting /\ ~isPainting') =>
          /\ sent' = IF strokeBuffer # <<>> THEN Append(sent, strokeBuffer) ELSE sent
          /\ strokeBuffer' = <<>>
     /\ (~isPainting /\ ~isPainting') => sent' = sent]_vars

\* C15 witness: a gesture of two samples has ended and its 26 buffered
\* operations went out as the one message sent so far.
C15_Witness ==
  /\ ~isPainting
  /\ strokeBuffer = <<>>
  /\ Len(samples) = 2
  /\ Len(sent) = 1
  /\ Len(sent[1]) = 26
  /\ drawn = sent[1]

C33_InterpolationCount ==
  (isPainting /\ dmReady /\ Len(samples) = 2) =>
    LET dx == samples[2][1] - samples[1][1]
        dy == samples[2][2] - samples[1][2]
        d2 == dx * dx + dy * dy
    IN  Farther(d2, brushRadius) =>
          Len(strokeBuffer) - 2 = CeilSteps(d2, brushRadius)

\* The centre of a buffered operation in units of 1/den (den a multiple of
\* the operation's own denominator), and the vector from the centre of a to
\* the centre of b in units of 1/den.
Centre(op, den) == <<op.x[1] * (den \div op.x[2]), op.y[1] * (den \div op.y[2])>>
Den(a, b) == IF a.x[2] >= b.x[2] THEN a.x[2] ELSE b.x[2]
Gap(a, b) ==
  <<Centre(b, Den(a, b))[1] - Centre(a, Den(a, b))[1],
    Centre(b, Den(a, b))[2] - Centre(a, Den(a, b))[2]>>

C17_HideRevealRoundTrip ==
  (/\ n >= 2
   /\ ops[n - 1].type = "hide-circle"
   /\ ops[n].type = "reveal-circle"
   /\ ops[n].x = ops[n - 1].x
   /\ ops[n].y = ops[n - 1].y
   /\ ops[n].radius = ops[n - 1].radius) =>
    \A p \in Pixels :
      Feather(ops[n], p) > 0 => stepped.mask[p] = trail[n - 1].mask[p]

\* C19: the rebuild of the empty log and of a log that is a single reset is
\* the fully opaque mask, and so is the mask after applyOne of a reset,
\* whatever the mask was before.
C19_EmptyEqualsReset ==
  /\ (fogPc = "rebuilt" /\ (ops = <<>> \/ (Len(ops) = 1 /\ ops[1].type = "reset")))
       => rebuilt.mask = Opaque
  /\ (n >= 1 /\ ops[n].type = "reset") => stepped.mask = Opaque

\* C19 witness: the log [reset] has been rebuilt and stepped through.
C19_Witness ==
  /\ ops = <<ResetOp>>
  /\ fogPc = "rebuilt"
  /\ n = 1
  /\ rebuilt.mask = Opaque
  /\ rebuilt = ApplyOps(FogInit, <<>>)

\* A reveal-polygon with fewer than 3 vertices, and its opposite.
ShortPolygon(op) == op.type = "reveal-polygon" /\ Len(op.points) < 6
WellFormed(op) == ~ShortPolygon(op)

\* C20: applyOne of a reveal-polygon with fewer than 3 vertices leaves the
\* layer as it was, and a rebuild or a step-by-step application of a log
\* gives what the same log without such polygons gives: the operations
\* after them are applied.
C20_ShortPolygonSkipped ==
  /\ (n >= 1 /\ ShortPolygon(ops[n])) => stepped = trail[n]
  /\ fogPc = "rebuilt" => rebuilt = ApplyOps(FogInit, SelectSeq(ops, WellFormed))
  /\ n = Len(ops) => stepped = StepEach(FogInit, SelectSeq(ops, WellFormed))

\* C20 witness: a two-vertex polygon sits between two reveals, and the second
\* reveal shows in both the rebuilt and the stepped mask.
C20_Witness ==
  /\ ops = <<RevealA, PolyBad, RevealB>>
  /\ fogPc = "rebuilt"
  /\ n = 3
  /\ stepped = rebuilt
  /\ rebuilt.mask # ApplyOps(FogInit, <<RevealA>>).mask
  /\ trail[3] = trail[2]

\* ------------------------------------------------- claims under SpecPeer
\* C21: in every broadcast the snapshot sent to the DM window, and to the
\* player window when there is one, is the canonical state as the handler
\* left it, whole, whatever the SSE frame of the same broadcast carries.
C21_WindowsGetFullSnapshot ==
  [][nBcast' # nBcast =>
       /\ dmMsg' = state'
       /\ playerWindow # "none" => playerMsg' = state']_vars

\* C21 witness: the second broadcast has sent a lite frame to the SSE side,
\* image payload stripped, while a player window exists and both windows hold
\* the state with its payload.
C21_Witness ==
  /\ nBcast = 2
  /\ playerWindow = "created"
  /\ state.map # Null
  /\ state.map.dataUrl # ""
  /\ sseFrame.map.dataUrl = ""
  /\ playerMsg = state
  /\ dmMsg = state

\* C25: a LOAD_SCENE that ends returns a result; with no file chosen it is
\* `cancelled', with an unreadable file `error', after the version warning
\* `cancelled' or `success' as the user chose; a result other than success
\* leaves the state and everything sent as they were with no broadcast, and
\* success means the file was loaded into the state and broadcast.
C25_LoadOutcome ==
  [][(loadPc # "idle" /\ loadPc' = "idle") =>
       /\ loadPc = "dialog" => loadResult' = "cancelled"
       /\ (loadPc = "reading" /\ ~loadFile.readable) => loadResult' = "error"
       /\ loadPc = "confirm" => loadResult' \in {"cancelled", "success"}
       /\ loadResult' \in {"cancelled", "error", "success"}
       /\ loadResult' # "success" =>
            /\ state' = state
            /\ nBcast' = nBcast
            /\ UNCHANGED <<outVars, sseVars>>
       /\ loadResult' = "success" =>
            /\ state' = LoadSave(state, loadFile)
            /\ nBcast' = nBcast + 1
            /\ dmMsg' = state']_vars

\* C25 witness: a load of an unreadable file has returned its error after a
\* mutation, with the state and the last snapshot sent still those of the
\* mutation.
C25_Witness ==
  /\ loadPc = "idle"
  /\ loadResult = "error"
  /\ nMut = 1
  /\ nBcast = 1
  /\ state # InitState
  /\ dmMsg = state

\* C25 second witness: a file of another minor version has been loaded after
\* the warning.
C25_ProceedWitness ==
  /\ loadPc = "idle"
  /\ loadResult = "success"
  /\ state.tokens = SaveOld.tokens
  /\ dmMsg = state

\* ------------------------------------------------- claims under SpecPush
\* C23: in every broadcast a registered client whose socket is destroyed
\* leaves the registry and is not written to, every registered live client
\* stays registered and is written the frame of this broadcast, and the
\* handler completes: the mutation is counted and its state is sent.
C23_DeadClientIsolated ==
  [][nBcast' # nBcast =>
       /\ \A c \in ClientIds :
            /\ (InSeq(c, sseClients) /\ c \in destroyed) =>
                  ~InSeq(c, sseClients') /\ sseOut'[c] = sseOut[c]
            /\ (InSeq(c, sseClients) /\ c \notin destroyed) =>
                  InSeq(c, sseClients') /\ sseOut'[c] = sseFrame'
       /\ nMut' = nMut + 1
       /\ dmMsg' = state']_vars

\* C23 witness: a broadcast has gone out while c1 was registered with a dead
\* socket and c2 was live: c1 is out of the registry with no frame, c2 holds
\* the frame.
C23_Witness ==
  /\ nBcast = 1
  /\ "c1" \in destroyed
  /\ ~InSeq("c1", sseClients)
  /\ sseOut["c1"] = NoFrame
  /\ InSeq("c2", sseClients)
  /\ sseOut["c2"] = sseFrame
  /\ sseFrame # NoFrame

\* C24: in every broadcast of a state with a battle, the frame carries the
\* battle's whole log when the battle id or the log length differs from what
\* the previous SSE broadcast remembered and an empty log when both are the
\* same; every broadcast leaves the id and log length of the state it sent
\* as the remembered ones.
C24_BattleLogStripRule ==
  [][nBcast' # nBcast =>
       /\ state'.battle # Null =>
            /\ (state'.battle.id # sseLastBattleId
                  \/ Len(state'.battle.log) # sseLastBattleLogLen) =>
                 sseFrame'.battle = state'.battle
            /\ (state'.battle.id = sseLastBattleId
                  /\ Len(state'.battle.log) = sseLastBattleLogLen) =>
                 sseFrame'.battle = [state'.battle EXCEPT !.log = <<>>]
            /\ sseLastBattleId' = state'.battle.id
       /\ state'.battle = Null => sseLastBattleId' = ""
       /\ sseLastBattleLogLen' = BattleLogLen(state')]_vars

\* C24 witness: the second broadcast of a battle with a one-entry log has
\* gone out with the log stripped, the first having carried it.
C24_Witness ==
  /\ nBcast = 2
  /\ state.battle # Null
  /\ state.battle.log # <<>>
  /\ sseFrame.battle.log = <<>>
  /\ sseLastBattleId = state.battle.id
  /\ sseLastBattleLogLen = 1

\* C35: a step that handles a mutation counts one mutation and one
\* broadcast and writes one frame, built from the state the mutation left,
\* to every registered client whose socket is alive, the same frame to each;
\* no other step writes a frame to any client.
C35_SameOrderedStream ==
  [][/\ nMut' # nMut =>
          /\ nMut' = nMut + 1
          /\ nBcast' = nBcast + 1
          /\ sseFrame' = SseState(state', sseLastMapKey, sseMapDataUrlCache',
                                  sseLastBattleId, sseLastBattleLogLen)
          /\ \A c, d \in ClientIds :
               (InSeq(c, sseClients) /\ c \notin destroyed
                  /\ InSeq(d, sseClients) /\ d \notin destroyed) =>
                 sseOut'[c] = sseOut'[d] /\ sseOut'[c] = sseFrame'
     /\ nMut' = nMut =>
          /\ nBcast' = nBcast
          /\ \A c \in ClientIds : sseOut'[c] \in {sseOut[c], NoFrame}]_vars

\* C35 witness: two live clients both hold the frame of the second
\* mutation, a frame with the battle log stripped.
C35_Witness ==
  /\ nMut = 2
  /\ sseClients = <<"c2", "c1">>
  /\ destroyed = {}
  /\ sseOut["c1"] = sseFrame
  /\ sseOut["c2"] = sseFrame
  /\ sseFrame.battle # Null
  /\ sseFrame.battle.log = <<>>
  /\ state.battle.log # <<>>

\* ------------------------------------------------ claims under SpecImage
\* What has been emitted and is still on record: the last snapshot sent to
\* each window, the last /state body, the last SSE frame and the last frame
\* written to each client.
Emitted ==
  {m \in {dmMsg, playerMsg, pullResp, sseFrame} \cup {sseOut[c] : c \in ClientIds} :
     m # NoFrame /\ m.map # Null /\ m.map.dataUrl # ""}

\* C26: any two snapshots or frames emitted whose images have the same
\* identity, filePath if present and dataUrl otherwise, and which both carry
\* a payload, carry the same payload.
C26_IdentityDeterminesPayload ==
  \A a, b \in Emitted : MapKey(a) = MapKey(b) => a.map.dataUrl = b.map.dataUrl

\* ------------------------------------------------ claims under SpecLaser
\* C22: a step that delivers a laser-pointer event leaves the canonical
\* state, the broadcast count, every state frame and snapshot already sent
\* and the SSE remembered image identity and battle-log cursor as they were,
\* and what it writes is an event named laser-pointer carrying the position;
\* a step that broadcasts the state writes no laser event.
C22_LaserChannelSeparate ==
  [][/\ (laserOut' # laserOut \/ playerLaser' # playerLaser) =>
          /\ state' = state
          /\ nBcast' = nBcast
          /\ UNCHANGED <<sseLastMapKey, sseMapDataUrlCache, sseLastBattleLogLen,
                         sseLastBattleId>>
          /\ UNCHANGED <<sseOut, sseFrame, sseWire, ipcWire, dmMsg, playerMsg>>
          /\ \A c \in ClientIds :
               laserOut'[c] # laserOut[c] =>
                 /\ laserOut'[c].event = "laser-pointer"
                 /\ laserOut'[c].data \in LaserPositions
                 /\ InSeq(c, sseClients')
     /\ nBcast' # nBcast => UNCHANGED <<laserOut, playerLaser>>]_vars

\* C22 witness: after two broadcasts a laser event has reached a live client
\* and the player window, next to the state frame the client holds.
C22_Witness ==
  /\ nBcast = 2
  /\ laserOut["c1"] # NoFrame
  /\ laserOut["c1"].data # Null
  /\ playerLaser = laserOut["c1"].data
  /\ sseOut["c1"] = sseFrame
  /\ sseFrame # NoFrame
  /\ sseLastBattleId = "b1"

\* ------------------------------------------------- claims under SpecEdit
RECURSIVE Flat(_)
Flat(batches) == IF batches = <<>> THEN <<>> ELSE Head(batches) \o Flat(Tail(batches))

\* C28: at every moment the batches flushed to the store, one after the
\* other, followed by what the stroke buffer still holds, are the operations
\* painting has applied to the DM's mask, in order.
C28_NothingLostOrDuplicated ==
  Flat(sent) \o strokeBuffer = drawn

\* C29: the fogOps effect of the DM canvas never applies an operation that
\* painting has already applied to the mask.
C29_PaintedOnce ==
  \A i \in 1..Len(replayed) : \A j \in 1..Len(drawn) : replayed[i] # drawn[j]

\* C30: the fogOps effect of the DM canvas never makes a full rebuild, and
\* once the main process has handled every batch flushed so far the
\* authoritative log is the DM store's optimistic log.
C30_EchoWithoutRebuild ==
  /\ rebuilds = 0
  /\ (handled = Len(sent) /\ handled > 0 /\ strokeBuffer = <<>>) => state.fogOps = dmFogOps

====
